---- MODULE Spec2Model ----
(***************************************************************************)
(* Model of the aggregator crate: ChunkHash, the batch hash circuit built  *)
(* from a list of chunks, the hash preimages it hands to the Keccak table, *)
(* and the public instance assembled by AggregationCircuit::new.           *)
(*                                                                         *)
(* Bytes are naturals in 0..255, an H256 is a sequence of 32 bytes, a u64  *)
(* is a natural (the model only uses chain ids below 2^31), an Fr element  *)
(* that holds a byte, a limb or a counter is the natural it represents.    *)
(***************************************************************************)
EXTENDS Integers, Sequences, FiniteSets, TLC

\* ---------------------------------------------------------------------
\* Program constants
\* ---------------------------------------------------------------------
MAX_AGG_SNARKS == 10
DIGEST_LEN == 32
CHAIN_ID_LEN == 8
LIMBS == 3
ACC_LEN == 4 * LIMBS
ROUND_LEN == 136
MAX_KECCAK_ROUNDS == 25
NUM_ROUNDS == 24
DEFAULT_KECCAK_ROWS == 12

\* ---------------------------------------------------------------------
\* Bounds of the model
\* ---------------------------------------------------------------------
\* width of one limb; the model's base field is scaled with it
BITS == 2
\* the model's base-field modulus (a prime below 2^(LIMBS*BITS))
FqModulus == 61
\* number of distinct random chunk lists per length
NumSeeds == 2
\* number of distinct lists of child proofs per batch
NumProofSeeds == 2
\* log2 of the number of rows of the circuit (its value is set in the
\* crate's constants, outside the files modelled here)
LOG_DEGREE == 19
FrModulus == 32749
KeccakInputs == {2, 3}
\* the longest list rlc is called on
MaxRlcLen == 3

\* ---------------------------------------------------------------------
\* Bytes, integers, hashes
\* ---------------------------------------------------------------------
RECURSIVE Pow2(_)
Pow2(n) == IF n = 0 THEN 1 ELSE 2 * Pow2(n - 1)

\* v >> (8*n), computed without forming 2^(8*n)
RECURSIVE Shr8(_, _)
Shr8(v, n) == IF n = 0 THEN v ELSE Shr8(v \div 256, n - 1)

to_le_bytes(v) == [i \in 1..8 |-> Shr8(v, i - 1) % 256]

\* mutant: the bytes come out least-significant first
to_be_bytes_reversed(v) == [i \in 1..8 |-> Shr8(v, i - 1) % 256]

to_be_bytes(v) == [i \in 1..8 |-> Shr8(v, 8 - i) % 256]

ZeroH256 == [i \in 1..32 |-> 0]

\* the 32-byte value drawn for tag b (b = 0 gives the all-zero value)
H256Of(b) == [i \in 1..32 |-> (b * (3 * i - 2)) % 256]

\* sum of (bytes[i] + 1) * weight(i) over lo..hi, by halving the range
RECURSIVE WeightedSum(_, _, _, _)
WeightedSum(bytes, lo, hi, square) ==
    IF lo > hi THEN 0
    ELSE IF lo = hi
         THEN (bytes[lo] + 1) * (IF square THEN ((lo * lo) % 251) + 1 ELSE lo)
    ELSE LET mid == (lo + hi) \div 2
         IN  WeightedSum(bytes, lo, mid, square)
                + WeightedSum(bytes, mid + 1, hi, square)

\* keccak256 of the external crate, as a deterministic 32-byte digest that
\* depends on every byte, its position and the length of the input
keccak256(bytes) ==
    LET h == WeightedSum(bytes, 1, Len(bytes), FALSE) % 65521
        g == WeightedSum(bytes, 1, Len(bytes), TRUE) % 65519
    IN  [j \in 1..32 |->
            ((CASE j % 4 = 1 -> h % 256
                [] j % 4 = 2 -> h \div 256
                [] j % 4 = 3 -> g % 256
                [] OTHER     -> g \div 256) + 7 * j) % 256]

\* the element of a set of one element
The(set) == CHOOSE v \in set : TRUE

RECURSIVE Concat(_)
Concat(seqs) == IF seqs = <<>> THEN <<>> ELSE Head(seqs) \o Concat(Tail(seqs))

\* ---------------------------------------------------------------------
\* ChunkHash
\* ---------------------------------------------------------------------
ChunkHash(chain, prev, post, withdraw, data) ==
    [chain_id |-> chain, prev_state_root |-> prev, post_state_root |-> post,
     withdraw_root |-> withdraw, data_hash |-> data]

\* mutant: the padding keeps the previous chunk's own prev_state_root
padded_chunk_hash_keeps_prev(previous_chunk) ==
    [chain_id        |-> previous_chunk.chain_id,
     prev_state_root |-> previous_chunk.prev_state_root,
     post_state_root |-> previous_chunk.post_state_root,
     withdraw_root   |-> previous_chunk.withdraw_root,
     data_hash       |-> ZeroH256]

padded_chunk_hash(previous_chunk) ==
    [chain_id        |-> previous_chunk.chain_id,
     prev_state_root |-> previous_chunk.post_state_root,
     post_state_root |-> previous_chunk.post_state_root,
     withdraw_root   |-> previous_chunk.withdraw_root,
     data_hash       |-> ZeroH256]

is_padding(self) ==
    ~(self.prev_state_root # self.post_state_root \/ self.data_hash # ZeroH256)

extract_hash_preimage(self) ==
    Concat(<<to_be_bytes(self.chain_id),
             self.prev_state_root,
             self.post_state_root,
             self.withdraw_root,
             self.data_hash>>)

public_input_hash(self) == keccak256(extract_hash_preimage(self))

\* ---------------------------------------------------------------------
\* BatchHash
\* ---------------------------------------------------------------------
NoBatch == [status |-> "none"]

same_chain_id(chunks) ==
    \A i \in 1..Len(chunks) - 1 : chunks[i].chain_id = chunks[i + 1].chain_id

\* mutant: only the first pair of chunks is compared
is_linked_first_pair(chunks) ==
    Len(chunks) >= 2 => chunks[2].prev_state_root = chunks[1].post_state_root

is_linked(chunks) ==
    \A i \in 1..Len(chunks) - 1 :
        chunks[i + 1].prev_state_root = chunks[i].post_state_root

\* pad(real_chunks): the k real entries, then MAX_AGG_SNARKS - k replicas of
\* the padding built from the last real chunk
pad(real_chunks) ==
    [i \in 1..MAX_AGG_SNARKS |->
        IF i <= Len(real_chunks) THEN real_chunks[i]
        ELSE padded_chunk_hash(real_chunks[Len(real_chunks)])]

batch_data_hash(real_chunks) ==
    keccak256(Concat([i \in 1..Len(real_chunks) |-> real_chunks[i].data_hash]))

batch_public_input_hash(real_chunks, data_hash) ==
    keccak256(Concat(<<to_be_bytes(real_chunks[1].chain_id),
                       real_chunks[1].prev_state_root,
                       real_chunks[Len(real_chunks)].post_state_root,
                       real_chunks[Len(real_chunks)].withdraw_root,
                       data_hash>>))

BatchHash_construct(real_chunks) ==
    IF ~same_chain_id(real_chunks) THEN [status |-> "ChainIdMismatch"]
    ELSE IF ~is_linked(real_chunks) THEN [status |-> "BrokenChunkLinkage"]
    ELSE IF Len(real_chunks) = 0 \/ Len(real_chunks) > MAX_AGG_SNARKS
         THEN [status |-> "InvalidChunkCount"]
    ELSE LET data_hash == batch_data_hash(real_chunks)
         IN  [status                 |-> "ok",
              chain_id               |-> real_chunks[1].chain_id,
              chunks_with_padding    |-> pad(real_chunks),
              data_hash              |-> data_hash,
              public_input_hash      |-> batch_public_input_hash(real_chunks, data_hash),
              number_of_valid_chunks |-> Len(real_chunks)]

\* BatchHash::extract_hash_preimages, in the order its callers rely on:
\* the batch public input hash, chunk[i].piHash for the MAX_AGG_SNARKS
\* slots, then the batch data hash, keccak(chunk[0].dataHash || ... ||
\* chunk[k-1].dataHash)
BatchHash_extract_hash_preimages(self) ==
    <<Concat(<<to_be_bytes(self.chain_id),
               self.chunks_with_padding[1].prev_state_root,
               self.chunks_with_padding[MAX_AGG_SNARKS].post_state_root,
               self.chunks_with_padding[MAX_AGG_SNARKS].withdraw_root,
               self.data_hash>>)>>
        \o [i \in 1..MAX_AGG_SNARKS |->
                extract_hash_preimage(self.chunks_with_padding[i])]
        \o <<Concat([i \in 1..self.number_of_valid_chunks |->
                        self.chunks_with_padding[i].data_hash])>>

\* ---------------------------------------------------------------------
\* BatchHashCircuit
\* ---------------------------------------------------------------------
last(seq) == seq[Len(seq)]

\* mutant: the post state root is taken from the first chunk
batch_public_input_hash_preimage_first_post(self) ==
    Concat(<<to_le_bytes(self.chain_id),
             self.chunks[1].prev_state_root,
             self.chunks[1].post_state_root,
             last(self.chunks).withdraw_root,
             self.batch.data_hash>>)

batch_public_input_hash_preimage(self) ==
    Concat(<<to_le_bytes(self.chain_id),
             self.chunks[1].prev_state_root,
             last(self.chunks).post_state_root,
             last(self.chunks).withdraw_root,
             self.batch.data_hash>>)

\* mutant: the data hashes of the padded slots are hashed too
batch_data_hash_preimage_with_padding(self) ==
    Concat([i \in 1..MAX_AGG_SNARKS |-> self.batch.chunks_with_padding[i].data_hash])

batch_data_hash_preimage(self) ==
    Concat([i \in 1..Len(self.chunks) |-> self.chunks[i].data_hash])

chunk_pi_hash_preimage(self, chunk) ==
    Concat(<<to_le_bytes(self.chain_id),
             chunk.prev_state_root,
             chunk.post_state_root,
             chunk.withdraw_root,
             chunk.data_hash>>)

extract_hash_preimages(self) ==
    <<batch_public_input_hash_preimage(self), batch_data_hash_preimage(self)>>
        \o [i \in 1..Len(self.chunks) |-> chunk_pi_hash_preimage(self, self.chunks[i])]

\* ---------------------------------------------------------------------
\* Keccak input cells
\* ---------------------------------------------------------------------
num_rounds(preimage) == 1 + Len(preimage) \div 136

\* the powers of the randomness in the scalar field
RECURSIVE FrPow(_, _)
FrPow(x, e) ==
    IF e = 0 THEN 1
    ELSE LET half == FrPow(x, e \div 2)
             sq   == (half * half) % FrModulus
         IN  IF e % 2 = 0 THEN sq ELSE (sq * x) % FrModulus

\* acc = acc * randomness + input over inputs[lo..hi], by halving the range
RECURSIVE rlc_range(_, _, _, _)
rlc_range(inputs, lo, hi, randomness) ==
    IF lo = hi THEN inputs[lo] % FrModulus
    ELSE LET mid == (lo + hi) \div 2
         IN  (rlc_range(inputs, lo, mid, randomness) * FrPow(randomness, hi - mid)
                + rlc_range(inputs, mid + 1, hi, randomness)) % FrModulus

\* mutant: the first input has the lowest weight
rlc_lowest_first(inputs, randomness) ==
    rlc_range([i \in 1..Len(inputs) |-> inputs[Len(inputs) + 1 - i]],
              1, Len(inputs), randomness)

rlc(inputs, randomness) == rlc_range(inputs, 1, Len(inputs), randomness)

\* the inputs whose flag is set, the first input always among them
flagged(inputs, flags) ==
    LET at == SelectSeq([i \in 1..Len(inputs) |-> i],
                        LAMBDA i : i = 1 \/ flags[i] = 1)
    IN  [i \in 1..Len(at) |-> inputs[at[i]]]

\* rlc_with_flag: acc = acc * randomness + input where the flag is 1, and
\* acc is kept where the flag is 0
rlc_with_flag(inputs, randomness, flags) == rlc(flagged(inputs, flags), randomness)

\* the bytes the Keccak table absorbs for one preimage: the preimage and
\* its padding, a whole number of rounds of 136 bytes
absorbed_bytes(preimage) ==
    LET pad_len == 136 * num_rounds(preimage) - Len(preimage)
    IN  preimage \o
            (IF pad_len = 1 THEN <<129>>
             ELSE <<1>> \o [i \in 1..pad_len - 2 |-> 0] \o <<128>>)

\* the values the environment variable KECCAK_ROWS may have when it is
\* read: <<>> when it is not set, <<n>> when it is set to the digits of n
KeccakRowsEnv == {<<>>, <<20>>}

get_num_rows_per_round(env) == IF env = <<>> THEN DEFAULT_KECCAK_ROWS ELSE env[1]

\* capacity(num_rows): <<>> is None, <<c>> is Some(c)
capacity(num_rows, env) ==
    IF num_rows > 0
    THEN << num_rows \div ((NUM_ROUNDS + 1) * get_num_rows_per_round(env)) - 2 >>
    ELSE <<>>

\* the 32 output cells of the Keccak table for a digest: the four 8-byte
\* words of the digest in reverse order
digest_cells(digest) ==
    [p \in 1..DIGEST_LEN |-> digest[(3 - (p - 1) \div 8) * 8 + ((p - 1) % 8) + 1]]

\* the rounds of the Keccak table for one input: the 136 bytes each round
\* absorbs and its output cells, which hold the digest in the last round
keccak_rounds(preimage, keccak_input) ==
    LET absorbed == absorbed_bytes(preimage)
        n        == num_rounds(preimage)
        full     == IF preimage = <<>> THEN 0 ELSE rlc(preimage, keccak_input)
    IN  [i \in 1..n |->
            [input  |-> SubSeq(absorbed, 136 * (i - 1) + 1, 136 * i),
             output |-> digest_cells(IF i = n THEN keccak256(preimage)
                                     ELSE keccak256(SubSeq(absorbed, 1, 136 * i))),
             data   |-> preimage,
             before |-> 136 * (i - 1),
             \* the data rlc once the round has absorbed its 136 bytes
             data_rlc |-> IF 136 * i >= Len(preimage) THEN full
                          ELSE rlc(SubSeq(preimage, 1, 136 * i), keccak_input)]]

\* multi_keccak: the rounds of every input in order; the table is then
\* filled up to its capacity with the round of the empty input
multi_keccak(preimages, keccak_input, cap) ==
    LET hashed == Concat([i \in 1..Len(preimages) |->
                            keccak_rounds(preimages[i], keccak_input)])
    IN  IF cap = <<>> \/ Len(hashed) > cap[1]
        THEN [ok |-> FALSE]
        ELSE [ok |-> TRUE, hashed |-> hashed, filler |-> keccak_rounds(<<>>, keccak_input)[1],
              rounds |-> cap[1]]

\* the round of the table that holds row `offset` (counted from 0; the first
\* rows_per_round rows of the table belong to no round), the Keccak-f round
\* inside it, and the row inside that
row_position(offset, rows_per_round) ==
    LET rel == offset - rows_per_round
    IN  [round    |-> rel \div ((NUM_ROUNDS + 1) * rows_per_round),
         f_round  |-> (rel % ((NUM_ROUNDS + 1) * rows_per_round)) \div rows_per_round,
         byte     |-> rel % rows_per_round]

round_at(witness, round) ==
    IF round < Len(witness.hashed) THEN witness.hashed[round + 1] ELSE witness.filler

\* row[10], the Keccak input cell: a round takes in 8 bytes in each of its
\* first 17 Keccak-f rounds, one per row
keccak_input_cell(witness, offset, rows_per_round) ==
    LET at == row_position(offset, rows_per_round)
    IN  IF offset < rows_per_round \/ at.f_round >= 17 \/ at.byte >= 8
        THEN 0
        ELSE round_at(witness, at.round).input[8 * at.f_round + at.byte + 1]

\* row.last(), the Keccak output cell: the output is in the 4 Keccak-f
\* rounds from the 21st on, 8 bytes each
keccak_output_cell(witness, offset, rows_per_round) ==
    LET at == row_position(offset, rows_per_round)
    IN  IF offset < rows_per_round \/ at.f_round < 20 \/ at.f_round >= 24 \/ at.byte >= 8
        THEN 0
        ELSE round_at(witness, at.round).output[8 * (at.f_round - 20) + at.byte + 1]

\* row[1], the data rlc cell: the random linear combination of the bytes of
\* the input absorbed so far, its padding left out
keccak_data_rlc_cell(witness, offset, rows_per_round, keccak_input) ==
    LET at == row_position(offset, rows_per_round)
    IN  IF offset < rows_per_round THEN 0
        ELSE LET round    == round_at(witness, at.round)
                 absorbed == round.before + 8 * at.f_round
                 taken    == IF absorbed < Len(round.data)
                             THEN absorbed ELSE Len(round.data)
             IN  IF at.f_round >= 17 THEN round.data_rlc
                 ELSE IF taken = 0 THEN 0
                 ELSE rlc(SubSeq(round.data, 1, taken), keccak_input)

\* the rows whose data rlc cell is collected
data_rlc_rows(witness_len) ==
    LET n == IF (witness_len - 1) \div 300 < 29
             THEN (witness_len - 1) \div 300 + 1 ELSE 30
    IN  [i \in 1..n |-> 300 * (i - 1)]

\* precomputed data for MAX_AGG_SNARKS == 10
precomputed_preimage_indices ==
    <<
       12, 13, 14, 15, 16, 17, 18, 19, 24, 25, 26, 27, 28, 29, 30, 31, 36, 37, 38, 39, 40, 41,
       42, 43, 48, 49, 50, 51, 52, 53, 54, 55, 60, 61, 62, 63, 64, 65, 66, 67, 72, 73, 74, 75,
       76, 77, 78, 79, 84, 85, 86, 87, 88, 89, 90, 91, 96, 97, 98, 99, 100, 101, 102, 103, 108,
       109, 110, 111, 112, 113, 114, 115, 120, 121, 122, 123, 124, 125, 126, 127, 132, 133, 134,
       135, 136, 137, 138, 139, 144, 145, 146, 147, 148, 149, 150, 151, 156, 157, 158, 159, 160,
       161, 162, 163, 168, 169, 170, 171, 172, 173, 174, 175, 180, 181, 182, 183, 184, 185, 186,
       187, 192, 193, 194, 195, 196, 197, 198, 199, 204, 205, 206, 207, 208, 209, 210, 211, 312,
       313, 314, 315, 316, 317, 318, 319, 324, 325, 326, 327, 328, 329, 330, 331, 336, 337, 338,
       339, 340, 341, 342, 343, 348, 349, 350, 351, 352, 353, 354, 355, 360, 361, 362, 363, 364,
       365, 366, 367, 372, 373, 374, 375, 376, 377, 378, 379, 384, 385, 386, 387, 388, 389, 390,
       391, 396, 397, 398, 399, 400, 401, 402, 403, 408, 409, 410, 411, 412, 413, 414, 415, 420,
       421, 422, 423, 424, 425, 426, 427, 432, 433, 434, 435, 436, 437, 438, 439, 444, 445, 446,
       447, 448, 449, 450, 451, 456, 457, 458, 459, 460, 461, 462, 463, 468, 469, 470, 471, 472,
       473, 474, 475, 480, 481, 482, 483, 484, 485, 486, 487, 492, 493, 494, 495, 496, 497, 498,
       499, 504, 505, 506, 507, 508, 509, 510, 511, 612, 613, 614, 615, 616, 617, 618, 619, 624,
       625, 626, 627, 628, 629, 630, 631, 636, 637, 638, 639, 640, 641, 642, 643, 648, 649, 650,
       651, 652, 653, 654, 655, 660, 661, 662, 663, 664, 665, 666, 667, 672, 673, 674, 675, 676,
       677, 678, 679, 684, 685, 686, 687, 688, 689, 690, 691, 696, 697, 698, 699, 700, 701, 702,
       703, 708, 709, 710, 711, 712, 713, 714, 715, 720, 721, 722, 723, 724, 725, 726, 727, 732,
       733, 734, 735, 736, 737, 738, 739, 744, 745, 746, 747, 748, 749, 750, 751, 756, 757, 758,
       759, 760, 761, 762, 763, 768, 769, 770, 771, 772, 773, 774, 775, 780, 781, 782, 783, 784,
       785, 786, 787, 792, 793, 794, 795, 796, 797, 798, 799, 804, 805, 806, 807, 808, 809, 810,
       811, 912, 913, 914, 915, 916, 917, 918, 919, 924, 925, 926, 927, 928, 929, 930, 931, 936,
       937, 938, 939, 940, 941, 942, 943, 948, 949, 950, 951, 952, 953, 954, 955, 960, 961, 962,
       963, 964, 965, 966, 967, 972, 973, 974, 975, 976, 977, 978, 979, 984, 985, 986, 987, 988,
       989, 990, 991, 996, 997, 998, 999, 1000, 1001, 1002, 1003, 1008, 1009, 1010, 1011, 1012,
       1013, 1014, 1015, 1020, 1021, 1022, 1023, 1024, 1025, 1026, 1027, 1032, 1033, 1034, 1035,
       1036, 1037, 1038, 1039, 1044, 1045, 1046, 1047, 1048, 1049, 1050, 1051, 1056, 1057, 1058,
       1059, 1060, 1061, 1062, 1063, 1068, 1069, 1070, 1071, 1072, 1073, 1074, 1075, 1080, 1081,
       1082, 1083, 1084, 1085, 1086, 1087, 1092, 1093, 1094, 1095, 1096, 1097, 1098, 1099, 1104,
       1105, 1106, 1107, 1108, 1109, 1110, 1111, 1212, 1213, 1214, 1215, 1216, 1217, 1218, 1219,
       1224, 1225, 1226, 1227, 1228, 1229, 1230, 1231, 1236, 1237, 1238, 1239, 1240, 1241, 1242,
       1243, 1248, 1249, 1250, 1251, 1252, 1253, 1254, 1255, 1260, 1261, 1262, 1263, 1264, 1265,
       1266, 1267, 1272, 1273, 1274, 1275, 1276, 1277, 1278, 1279, 1284, 1285, 1286, 1287, 1288,
       1289, 1290, 1291, 1296, 1297, 1298, 1299, 1300, 1301, 1302, 1303, 1308, 1309, 1310, 1311,
       1312, 1313, 1314, 1315, 1320, 1321, 1322, 1323, 1324, 1325, 1326, 1327, 1332, 1333, 1334,
       1335, 1336, 1337, 1338, 1339, 1344, 1345, 1346, 1347, 1348, 1349, 1350, 1351, 1356, 1357,
       1358, 1359, 1360, 1361, 1362, 1363, 1368, 1369, 1370, 1371, 1372, 1373, 1374, 1375, 1380,
       1381, 1382, 1383, 1384, 1385, 1386, 1387, 1392, 1393, 1394, 1395, 1396, 1397, 1398, 1399,
       1404, 1405, 1406, 1407, 1408, 1409, 1410, 1411, 1512, 1513, 1514, 1515, 1516, 1517, 1518,
       1519, 1524, 1525, 1526, 1527, 1528, 1529, 1530, 1531, 1536, 1537, 1538, 1539, 1540, 1541,
       1542, 1543, 1548, 1549, 1550, 1551, 1552, 1553, 1554, 1555, 1560, 1561, 1562, 1563, 1564,
       1565, 1566, 1567, 1572, 1573, 1574, 1575, 1576, 1577, 1578, 1579, 1584, 1585, 1586, 1587,
       1588, 1589, 1590, 1591, 1596, 1597, 1598, 1599, 1600, 1601, 1602, 1603, 1608, 1609, 1610,
       1611, 1612, 1613, 1614, 1615, 1620, 1621, 1622, 1623, 1624, 1625, 1626, 1627, 1632, 1633,
       1634, 1635, 1636, 1637, 1638, 1639, 1644, 1645, 1646, 1647, 1648, 1649, 1650, 1651, 1656,
       1657, 1658, 1659, 1660, 1661, 1662, 1663, 1668, 1669, 1670, 1671, 1672, 1673, 1674, 1675,
       1680, 1681, 1682, 1683, 1684, 1685, 1686, 1687, 1692, 1693, 1694, 1695, 1696, 1697, 1698,
       1699, 1704, 1705, 1706, 1707, 1708, 1709, 1710, 1711, 1812, 1813, 1814, 1815, 1816, 1817,
       1818, 1819, 1824, 1825, 1826, 1827, 1828, 1829, 1830, 1831, 1836, 1837, 1838, 1839, 1840,
       1841, 1842, 1843, 1848, 1849, 1850, 1851, 1852, 1853, 1854, 1855, 1860, 1861, 1862, 1863,
       1864, 1865, 1866, 1867, 1872, 1873, 1874, 1875, 1876, 1877, 1878, 1879, 1884, 1885, 1886,
       1887, 1888, 1889, 1890, 1891, 1896, 1897, 1898, 1899, 1900, 1901, 1902, 1903, 1908, 1909,
       1910, 1911, 1912, 1913, 1914, 1915, 1920, 1921, 1922, 1923, 1924, 1925, 1926, 1927, 1932,
       1933, 1934, 1935, 1936, 1937, 1938, 1939, 1944, 1945, 1946, 1947, 1948, 1949, 1950, 1951,
       1956, 1957, 1958, 1959, 1960, 1961, 1962, 1963, 1968, 1969, 1970, 1971, 1972, 1973, 1974,
       1975, 1980, 1981, 1982, 1983, 1984, 1985, 1986, 1987, 1992, 1993, 1994, 1995, 1996, 1997,
       1998, 1999, 2004, 2005, 2006, 2007, 2008, 2009, 2010, 2011, 2112, 2113, 2114, 2115, 2116,
       2117, 2118, 2119, 2124, 2125, 2126, 2127, 2128, 2129, 2130, 2131, 2136, 2137, 2138, 2139,
       2140, 2141, 2142, 2143, 2148, 2149, 2150, 2151, 2152, 2153, 2154, 2155, 2160, 2161, 2162,
       2163, 2164, 2165, 2166, 2167, 2172, 2173, 2174, 2175, 2176, 2177, 2178, 2179, 2184, 2185,
       2186, 2187, 2188, 2189, 2190, 2191, 2196, 2197, 2198, 2199, 2200, 2201, 2202, 2203, 2208,
       2209, 2210, 2211, 2212, 2213, 2214, 2215, 2220, 2221, 2222, 2223, 2224, 2225, 2226, 2227,
       2232, 2233, 2234, 2235, 2236, 2237, 2238, 2239, 2244, 2245, 2246, 2247, 2248, 2249, 2250,
       2251, 2256, 2257, 2258, 2259, 2260, 2261, 2262, 2263, 2268, 2269, 2270, 2271, 2272, 2273,
       2274, 2275, 2280, 2281, 2282, 2283, 2284, 2285, 2286, 2287, 2292, 2293, 2294, 2295, 2296,
       2297, 2298, 2299, 2304, 2305, 2306, 2307, 2308, 2309, 2310, 2311, 2412, 2413, 2414, 2415,
       2416, 2417, 2418, 2419, 2424, 2425, 2426, 2427, 2428, 2429, 2430, 2431, 2436, 2437, 2438,
       2439, 2440, 2441, 2442, 2443, 2448, 2449, 2450, 2451, 2452, 2453, 2454, 2455, 2460, 2461,
       2462, 2463, 2464, 2465, 2466, 2467, 2472, 2473, 2474, 2475, 2476, 2477, 2478, 2479, 2484,
       2485, 2486, 2487, 2488, 2489, 2490, 2491, 2496, 2497, 2498, 2499, 2500, 2501, 2502, 2503,
       2508, 2509, 2510, 2511, 2512, 2513, 2514, 2515, 2520, 2521, 2522, 2523, 2524, 2525, 2526,
       2527, 2532, 2533, 2534, 2535, 2536, 2537, 2538, 2539, 2544, 2545, 2546, 2547, 2548, 2549,
       2550, 2551, 2556, 2557, 2558, 2559, 2560, 2561, 2562, 2563, 2568, 2569, 2570, 2571, 2572,
       2573, 2574, 2575, 2580, 2581, 2582, 2583, 2584, 2585, 2586, 2587, 2592, 2593, 2594, 2595,
       2596, 2597, 2598, 2599, 2604, 2605, 2606, 2607, 2608, 2609, 2610, 2611, 2712, 2713, 2714,
       2715, 2716, 2717, 2718, 2719, 2724, 2725, 2726, 2727, 2728, 2729, 2730, 2731, 2736, 2737,
       2738, 2739, 2740, 2741, 2742, 2743, 2748, 2749, 2750, 2751, 2752, 2753, 2754, 2755, 2760,
       2761, 2762, 2763, 2764, 2765, 2766, 2767, 2772, 2773, 2774, 2775, 2776, 2777, 2778, 2779,
       2784, 2785, 2786, 2787, 2788, 2789, 2790, 2791, 2796, 2797, 2798, 2799, 2800, 2801, 2802,
       2803, 2808, 2809, 2810, 2811, 2812, 2813, 2814, 2815, 2820, 2821, 2822, 2823, 2824, 2825,
       2826, 2827, 2832, 2833, 2834, 2835, 2836, 2837, 2838, 2839, 2844, 2845, 2846, 2847, 2848,
       2849, 2850, 2851, 2856, 2857, 2858, 2859, 2860, 2861, 2862, 2863, 2868, 2869, 2870, 2871,
       2872, 2873, 2874, 2875, 2880, 2881, 2882, 2883, 2884, 2885, 2886, 2887, 2892, 2893, 2894,
       2895, 2896, 2897, 2898, 2899, 2904, 2905, 2906, 2907, 2908, 2909, 2910, 2911, 3012, 3013,
       3014, 3015, 3016, 3017, 3018, 3019, 3024, 3025, 3026, 3027, 3028, 3029, 3030, 3031, 3036,
       3037, 3038, 3039, 3040, 3041, 3042, 3043, 3048, 3049, 3050, 3051, 3052, 3053, 3054, 3055,
       3060, 3061, 3062, 3063, 3064, 3065, 3066, 3067, 3072, 3073, 3074, 3075, 3076, 3077, 3078,
       3079, 3084, 3085, 3086, 3087, 3088, 3089, 3090, 3091, 3096, 3097, 3098, 3099, 3100, 3101,
       3102, 3103, 3108, 3109, 3110, 3111, 3112, 3113, 3114, 3115, 3120, 3121, 3122, 3123, 3124,
       3125, 3126, 3127, 3132, 3133, 3134, 3135, 3136, 3137, 3138, 3139, 3144, 3145, 3146, 3147,
       3148, 3149, 3150, 3151, 3156, 3157, 3158, 3159, 3160, 3161, 3162, 3163, 3168, 3169, 3170,
       3171, 3172, 3173, 3174, 3175, 3180, 3181, 3182, 3183, 3184, 3185, 3186, 3187, 3192, 3193,
       3194, 3195, 3196, 3197, 3198, 3199, 3204, 3205, 3206, 3207, 3208, 3209, 3210, 3211, 3312,
       3313, 3314, 3315, 3316, 3317, 3318, 3319, 3324, 3325, 3326, 3327, 3328, 3329, 3330, 3331,
       3336, 3337, 3338, 3339, 3340, 3341, 3342, 3343, 3348, 3349, 3350, 3351, 3352, 3353, 3354,
       3355, 3360, 3361, 3362, 3363, 3364, 3365, 3366, 3367, 3372, 3373, 3374, 3375, 3376, 3377,
       3378, 3379, 3384, 3385, 3386, 3387, 3388, 3389, 3390, 3391, 3396, 3397, 3398, 3399, 3400,
       3401, 3402, 3403, 3408, 3409, 3410, 3411, 3412, 3413, 3414, 3415, 3420, 3421, 3422, 3423,
       3424, 3425, 3426, 3427, 3432, 3433, 3434, 3435, 3436, 3437, 3438, 3439, 3444, 3445, 3446,
       3447, 3448, 3449, 3450, 3451, 3456, 3457, 3458, 3459, 3460, 3461, 3462, 3463, 3468, 3469,
       3470, 3471, 3472, 3473, 3474, 3475, 3480, 3481, 3482, 3483, 3484, 3485, 3486, 3487, 3492,
       3493, 3494, 3495, 3496, 3497, 3498, 3499, 3504, 3505, 3506, 3507, 3508, 3509, 3510, 3511,
       3612, 3613, 3614, 3615, 3616, 3617, 3618, 3619, 3624, 3625, 3626, 3627, 3628, 3629, 3630,
       3631, 3636, 3637, 3638, 3639, 3640, 3641, 3642, 3643, 3648, 3649, 3650, 3651, 3652, 3653,
       3654, 3655, 3660, 3661, 3662, 3663, 3664, 3665, 3666, 3667, 3672, 3673, 3674, 3675, 3676,
       3677, 3678, 3679, 3684, 3685, 3686, 3687, 3688, 3689, 3690, 3691, 3696, 3697, 3698, 3699,
       3700, 3701, 3702, 3703, 3708, 3709, 3710, 3711, 3712, 3713, 3714, 3715, 3720, 3721, 3722,
       3723, 3724, 3725, 3726, 3727, 3732, 3733, 3734, 3735, 3736, 3737, 3738, 3739, 3744, 3745,
       3746, 3747, 3748, 3749, 3750, 3751, 3756, 3757, 3758, 3759, 3760, 3761, 3762, 3763, 3768,
       3769, 3770, 3771, 3772, 3773, 3774, 3775, 3780, 3781, 3782, 3783, 3784, 3785, 3786, 3787,
       3792, 3793, 3794, 3795, 3796, 3797, 3798, 3799, 3804, 3805, 3806, 3807, 3808, 3809, 3810,
       3811, 3912, 3913, 3914, 3915, 3916, 3917, 3918, 3919, 3924, 3925, 3926, 3927, 3928, 3929,
       3930, 3931, 3936, 3937, 3938, 3939, 3940, 3941, 3942, 3943, 3948, 3949, 3950, 3951, 3952,
       3953, 3954, 3955, 3960, 3961, 3962, 3963, 3964, 3965, 3966, 3967, 3972, 3973, 3974, 3975,
       3976, 3977, 3978, 3979, 3984, 3985, 3986, 3987, 3988, 3989, 3990, 3991, 3996, 3997, 3998,
       3999, 4000, 4001, 4002, 4003, 4008, 4009, 4010, 4011, 4012, 4013, 4014, 4015, 4020, 4021,
       4022, 4023, 4024, 4025, 4026, 4027, 4032, 4033, 4034, 4035, 4036, 4037, 4038, 4039, 4044,
       4045, 4046, 4047, 4048, 4049, 4050, 4051, 4056, 4057, 4058, 4059, 4060, 4061, 4062, 4063,
       4068, 4069, 4070, 4071, 4072, 4073, 4074, 4075, 4080, 4081, 4082, 4083, 4084, 4085, 4086,
       4087, 4092, 4093, 4094, 4095, 4096, 4097, 4098, 4099, 4104, 4105, 4106, 4107, 4108, 4109,
       4110, 4111, 4212, 4213, 4214, 4215, 4216, 4217, 4218, 4219, 4224, 4225, 4226, 4227, 4228,
       4229, 4230, 4231, 4236, 4237, 4238, 4239, 4240, 4241, 4242, 4243, 4248, 4249, 4250, 4251,
       4252, 4253, 4254, 4255, 4260, 4261, 4262, 4263, 4264, 4265, 4266, 4267, 4272, 4273, 4274,
       4275, 4276, 4277, 4278, 4279, 4284, 4285, 4286, 4287, 4288, 4289, 4290, 4291, 4296, 4297,
       4298, 4299, 4300, 4301, 4302, 4303, 4308, 4309, 4310, 4311, 4312, 4313, 4314, 4315, 4320,
       4321, 4322, 4323, 4324, 4325, 4326, 4327, 4332, 4333, 4334, 4335, 4336, 4337, 4338, 4339,
       4344, 4345, 4346, 4347, 4348, 4349, 4350, 4351, 4356, 4357, 4358, 4359, 4360, 4361, 4362,
       4363, 4368, 4369, 4370, 4371, 4372, 4373, 4374, 4375, 4380, 4381, 4382, 4383, 4384, 4385,
       4386, 4387, 4392, 4393, 4394, 4395, 4396, 4397, 4398, 4399, 4404, 4405, 4406, 4407, 4408,
       4409, 4410, 4411, 4512, 4513, 4514, 4515, 4516, 4517, 4518, 4519, 4524, 4525, 4526, 4527,
       4528, 4529, 4530, 4531, 4536, 4537, 4538, 4539, 4540, 4541, 4542, 4543, 4548, 4549, 4550,
       4551, 4552, 4553, 4554, 4555, 4560, 4561, 4562, 4563, 4564, 4565, 4566, 4567, 4572, 4573,
       4574, 4575, 4576, 4577, 4578, 4579, 4584, 4585, 4586, 4587, 4588, 4589, 4590, 4591, 4596,
       4597, 4598, 4599, 4600, 4601, 4602, 4603, 4608, 4609, 4610, 4611, 4612, 4613, 4614, 4615,
       4620, 4621, 4622, 4623, 4624, 4625, 4626, 4627, 4632, 4633, 4634, 4635, 4636, 4637, 4638,
       4639, 4644, 4645, 4646, 4647, 4648, 4649, 4650, 4651, 4656, 4657, 4658, 4659, 4660, 4661,
       4662, 4663, 4668, 4669, 4670, 4671, 4672, 4673, 4674, 4675, 4680, 4681, 4682, 4683, 4684,
       4685, 4686, 4687, 4692, 4693, 4694, 4695, 4696, 4697, 4698, 4699, 4704, 4705, 4706, 4707,
       4708, 4709, 4710, 4711, 4812, 4813, 4814, 4815, 4816, 4817, 4818, 4819, 4824, 4825, 4826,
       4827, 4828, 4829, 4830, 4831, 4836, 4837, 4838, 4839, 4840, 4841, 4842, 4843, 4848, 4849,
       4850, 4851, 4852, 4853, 4854, 4855, 4860, 4861, 4862, 4863, 4864, 4865, 4866, 4867, 4872,
       4873, 4874, 4875, 4876, 4877, 4878, 4879, 4884, 4885, 4886, 4887, 4888, 4889, 4890, 4891,
       4896, 4897, 4898, 4899, 4900, 4901, 4902, 4903, 4908, 4909, 4910, 4911, 4912, 4913, 4914,
       4915, 4920, 4921, 4922, 4923, 4924, 4925, 4926, 4927, 4932, 4933, 4934, 4935, 4936, 4937,
       4938, 4939, 4944, 4945, 4946, 4947, 4948, 4949, 4950, 4951, 4956, 4957, 4958, 4959, 4960,
       4961, 4962, 4963, 4968, 4969, 4970, 4971, 4972, 4973, 4974, 4975, 4980, 4981, 4982, 4983,
       4984, 4985, 4986, 4987, 4992, 4993, 4994, 4995, 4996, 4997, 4998, 4999, 5004, 5005, 5006,
       5007, 5008, 5009, 5010, 5011, 5112, 5113, 5114, 5115, 5116, 5117, 5118, 5119, 5124, 5125,
       5126, 5127, 5128, 5129, 5130, 5131, 5136, 5137, 5138, 5139, 5140, 5141, 5142, 5143, 5148,
       5149, 5150, 5151, 5152, 5153, 5154, 5155, 5160, 5161, 5162, 5163, 5164, 5165, 5166, 5167,
       5172, 5173, 5174, 5175, 5176, 5177, 5178, 5179, 5184, 5185, 5186, 5187, 5188, 5189, 5190,
       5191, 5196, 5197, 5198, 5199, 5200, 5201, 5202, 5203, 5208, 5209, 5210, 5211, 5212, 5213,
       5214, 5215, 5220, 5221, 5222, 5223, 5224, 5225, 5226, 5227, 5232, 5233, 5234, 5235, 5236,
       5237, 5238, 5239, 5244, 5245, 5246, 5247, 5248, 5249, 5250, 5251, 5256, 5257, 5258, 5259,
       5260, 5261, 5262, 5263, 5268, 5269, 5270, 5271, 5272, 5273, 5274, 5275, 5280, 5281, 5282,
       5283, 5284, 5285, 5286, 5287, 5292, 5293, 5294, 5295, 5296, 5297, 5298, 5299, 5304, 5305,
       5306, 5307, 5308, 5309, 5310, 5311, 5412, 5413, 5414, 5415, 5416, 5417, 5418, 5419, 5424,
       5425, 5426, 5427, 5428, 5429, 5430, 5431, 5436, 5437, 5438, 5439, 5440, 5441, 5442, 5443,
       5448, 5449, 5450, 5451, 5452, 5453, 5454, 5455, 5460, 5461, 5462, 5463, 5464, 5465, 5466,
       5467, 5472, 5473, 5474, 5475, 5476, 5477, 5478, 5479, 5484, 5485, 5486, 5487, 5488, 5489,
       5490, 5491, 5496, 5497, 5498, 5499, 5500, 5501, 5502, 5503, 5508, 5509, 5510, 5511, 5512,
       5513, 5514, 5515, 5520, 5521, 5522, 5523, 5524, 5525, 5526, 5527, 5532, 5533, 5534, 5535,
       5536, 5537, 5538, 5539, 5544, 5545, 5546, 5547, 5548, 5549, 5550, 5551, 5556, 5557, 5558,
       5559, 5560, 5561, 5562, 5563, 5568, 5569, 5570, 5571, 5572, 5573, 5574, 5575, 5580, 5581,
       5582, 5583, 5584, 5585, 5586, 5587, 5592, 5593, 5594, 5595, 5596, 5597, 5598, 5599, 5604,
       5605, 5606, 5607, 5608, 5609, 5610, 5611, 5712, 5713, 5714, 5715, 5716, 5717, 5718, 5719,
       5724, 5725, 5726, 5727, 5728, 5729, 5730, 5731, 5736, 5737, 5738, 5739, 5740, 5741, 5742,
       5743, 5748, 5749, 5750, 5751, 5752, 5753, 5754, 5755, 5760, 5761, 5762, 5763, 5764, 5765,
       5766, 5767, 5772, 5773, 5774, 5775, 5776, 5777, 5778, 5779, 5784, 5785, 5786, 5787, 5788,
       5789, 5790, 5791, 5796, 5797, 5798, 5799, 5800, 5801, 5802, 5803, 5808, 5809, 5810, 5811,
       5812, 5813, 5814, 5815, 5820, 5821, 5822, 5823, 5824, 5825, 5826, 5827, 5832, 5833, 5834,
       5835, 5836, 5837, 5838, 5839, 5844, 5845, 5846, 5847, 5848, 5849, 5850, 5851, 5856, 5857,
       5858, 5859, 5860, 5861, 5862, 5863, 5868, 5869, 5870, 5871, 5872, 5873, 5874, 5875, 5880,
       5881, 5882, 5883, 5884, 5885, 5886, 5887, 5892, 5893, 5894, 5895, 5896, 5897, 5898, 5899,
       5904, 5905, 5906, 5907, 5908, 5909, 5910, 5911, 6012, 6013, 6014, 6015, 6016, 6017, 6018,
       6019, 6024, 6025, 6026, 6027, 6028, 6029, 6030, 6031, 6036, 6037, 6038, 6039, 6040, 6041,
       6042, 6043, 6048, 6049, 6050, 6051, 6052, 6053, 6054, 6055, 6060, 6061, 6062, 6063, 6064,
       6065, 6066, 6067, 6072, 6073, 6074, 6075, 6076, 6077, 6078, 6079, 6084, 6085, 6086, 6087,
       6088, 6089, 6090, 6091, 6096, 6097, 6098, 6099, 6100, 6101, 6102, 6103, 6108, 6109, 6110,
       6111, 6112, 6113, 6114, 6115, 6120, 6121, 6122, 6123, 6124, 6125, 6126, 6127, 6132, 6133,
       6134, 6135, 6136, 6137, 6138, 6139, 6144, 6145, 6146, 6147, 6148, 6149, 6150, 6151, 6156,
       6157, 6158, 6159, 6160, 6161, 6162, 6163, 6168, 6169, 6170, 6171, 6172, 6173, 6174, 6175,
       6180, 6181, 6182, 6183, 6184, 6185, 6186, 6187, 6192, 6193, 6194, 6195, 6196, 6197, 6198,
       6199, 6204, 6205, 6206, 6207, 6208, 6209, 6210, 6211, 6312, 6313, 6314, 6315, 6316, 6317,
       6318, 6319, 6324, 6325, 6326, 6327, 6328, 6329, 6330, 6331, 6336, 6337, 6338, 6339, 6340,
       6341, 6342, 6343, 6348, 6349, 6350, 6351, 6352, 6353, 6354, 6355, 6360, 6361, 6362, 6363,
       6364, 6365, 6366, 6367, 6372, 6373, 6374, 6375, 6376, 6377, 6378, 6379, 6384, 6385, 6386,
       6387, 6388, 6389, 6390, 6391, 6396, 6397, 6398, 6399, 6400, 6401, 6402, 6403, 6408, 6409,
       6410, 6411, 6412, 6413, 6414, 6415, 6420, 6421, 6422, 6423, 6424, 6425, 6426, 6427, 6432,
       6433, 6434, 6435, 6436, 6437, 6438, 6439, 6444, 6445, 6446, 6447, 6448, 6449, 6450, 6451,
       6456, 6457, 6458, 6459, 6460, 6461, 6462, 6463, 6468, 6469, 6470, 6471, 6472, 6473, 6474,
       6475, 6480, 6481, 6482, 6483, 6484, 6485, 6486, 6487, 6492, 6493, 6494, 6495, 6496, 6497,
       6498, 6499, 6504, 6505, 6506, 6507, 6508, 6509, 6510, 6511, 6612, 6613, 6614, 6615, 6616,
       6617, 6618, 6619, 6624, 6625, 6626, 6627, 6628, 6629, 6630, 6631, 6636, 6637, 6638, 6639,
       6640, 6641, 6642, 6643, 6648, 6649, 6650, 6651, 6652, 6653, 6654, 6655, 6660, 6661, 6662,
       6663, 6664, 6665, 6666, 6667, 6672, 6673, 6674, 6675, 6676, 6677, 6678, 6679, 6684, 6685,
       6686, 6687, 6688, 6689, 6690, 6691, 6696, 6697, 6698, 6699, 6700, 6701, 6702, 6703, 6708,
       6709, 6710, 6711, 6712, 6713, 6714, 6715, 6720, 6721, 6722, 6723, 6724, 6725, 6726, 6727,
       6732, 6733, 6734, 6735, 6736, 6737, 6738, 6739, 6744, 6745, 6746, 6747, 6748, 6749, 6750,
       6751, 6756, 6757, 6758, 6759, 6760, 6761, 6762, 6763, 6768, 6769, 6770, 6771, 6772, 6773,
       6774, 6775, 6780, 6781, 6782, 6783, 6784, 6785, 6786, 6787, 6792, 6793, 6794, 6795, 6796,
       6797, 6798, 6799, 6804, 6805, 6806, 6807, 6808, 6809, 6810, 6811, 6912, 6913, 6914, 6915,
       6916, 6917, 6918, 6919, 6924, 6925, 6926, 6927, 6928, 6929, 6930, 6931, 6936, 6937, 6938,
       6939, 6940, 6941, 6942, 6943, 6948, 6949, 6950, 6951, 6952, 6953, 6954, 6955, 6960, 6961,
       6962, 6963, 6964, 6965, 6966, 6967, 6972, 6973, 6974, 6975, 6976, 6977, 6978, 6979, 6984,
       6985, 6986, 6987, 6988, 6989, 6990, 6991, 6996, 6997, 6998, 6999, 7000, 7001, 7002, 7003,
       7008, 7009, 7010, 7011, 7012, 7013, 7014, 7015, 7020, 7021, 7022, 7023, 7024, 7025, 7026,
       7027, 7032, 7033, 7034, 7035, 7036, 7037, 7038, 7039, 7044, 7045, 7046, 7047, 7048, 7049,
       7050, 7051, 7056, 7057, 7058, 7059, 7060, 7061, 7062, 7063, 7068, 7069, 7070, 7071, 7072,
       7073, 7074, 7075, 7080, 7081, 7082, 7083, 7084, 7085, 7086, 7087, 7092, 7093, 7094, 7095,
       7096, 7097, 7098, 7099, 7104, 7105, 7106, 7107, 7108, 7109, 7110, 7111, 7212, 7213, 7214,
       7215, 7216, 7217, 7218, 7219, 7224, 7225, 7226, 7227, 7228, 7229, 7230, 7231, 7236, 7237,
       7238, 7239, 7240, 7241, 7242, 7243, 7248, 7249, 7250, 7251, 7252, 7253, 7254, 7255, 7260,
       7261, 7262, 7263, 7264, 7265, 7266, 7267, 7272, 7273, 7274, 7275, 7276, 7277, 7278, 7279,
       7284, 7285, 7286, 7287, 7288, 7289, 7290, 7291, 7296, 7297, 7298, 7299, 7300, 7301, 7302,
       7303, 7308, 7309, 7310, 7311, 7312, 7313, 7314, 7315, 7320, 7321, 7322, 7323, 7324, 7325,
       7326, 7327, 7332, 7333, 7334, 7335, 7336, 7337, 7338, 7339, 7344, 7345, 7346, 7347, 7348,
       7349, 7350, 7351, 7356, 7357, 7358, 7359, 7360, 7361, 7362, 7363, 7368, 7369, 7370, 7371,
       7372, 7373, 7374, 7375, 7380, 7381, 7382, 7383, 7384, 7385, 7386, 7387, 7392, 7393, 7394,
       7395, 7396, 7397, 7398, 7399, 7404, 7405, 7406, 7407, 7408, 7409, 7410, 7411
    >>

precomputed_digest_indices ==
    <<
       552, 553, 554, 555, 556, 557, 558, 559, 564, 565, 566, 567, 568, 569, 570, 571, 576, 577,
       578, 579, 580, 581, 582, 583, 588, 589, 590, 591, 592, 593, 594, 595, 1152, 1153, 1154,
       1155, 1156, 1157, 1158, 1159, 1164, 1165, 1166, 1167, 1168, 1169, 1170, 1171, 1176, 1177,
       1178, 1179, 1180, 1181, 1182, 1183, 1188, 1189, 1190, 1191, 1192, 1193, 1194, 1195, 1752,
       1753, 1754, 1755, 1756, 1757, 1758, 1759, 1764, 1765, 1766, 1767, 1768, 1769, 1770, 1771,
       1776, 1777, 1778, 1779, 1780, 1781, 1782, 1783, 1788, 1789, 1790, 1791, 1792, 1793, 1794,
       1795, 2352, 2353, 2354, 2355, 2356, 2357, 2358, 2359, 2364, 2365, 2366, 2367, 2368, 2369,
       2370, 2371, 2376, 2377, 2378, 2379, 2380, 2381, 2382, 2383, 2388, 2389, 2390, 2391, 2392,
       2393, 2394, 2395, 2952, 2953, 2954, 2955, 2956, 2957, 2958, 2959, 2964, 2965, 2966, 2967,
       2968, 2969, 2970, 2971, 2976, 2977, 2978, 2979, 2980, 2981, 2982, 2983, 2988, 2989, 2990,
       2991, 2992, 2993, 2994, 2995, 3552, 3553, 3554, 3555, 3556, 3557, 3558, 3559, 3564, 3565,
       3566, 3567, 3568, 3569, 3570, 3571, 3576, 3577, 3578, 3579, 3580, 3581, 3582, 3583, 3588,
       3589, 3590, 3591, 3592, 3593, 3594, 3595, 4152, 4153, 4154, 4155, 4156, 4157, 4158, 4159,
       4164, 4165, 4166, 4167, 4168, 4169, 4170, 4171, 4176, 4177, 4178, 4179, 4180, 4181, 4182,
       4183, 4188, 4189, 4190, 4191, 4192, 4193, 4194, 4195, 4752, 4753, 4754, 4755, 4756, 4757,
       4758, 4759, 4764, 4765, 4766, 4767, 4768, 4769, 4770, 4771, 4776, 4777, 4778, 4779, 4780,
       4781, 4782, 4783, 4788, 4789, 4790, 4791, 4792, 4793, 4794, 4795, 5352, 5353, 5354, 5355,
       5356, 5357, 5358, 5359, 5364, 5365, 5366, 5367, 5368, 5369, 5370, 5371, 5376, 5377, 5378,
       5379, 5380, 5381, 5382, 5383, 5388, 5389, 5390, 5391, 5392, 5393, 5394, 5395, 5952, 5953,
       5954, 5955, 5956, 5957, 5958, 5959, 5964, 5965, 5966, 5967, 5968, 5969, 5970, 5971, 5976,
       5977, 5978, 5979, 5980, 5981, 5982, 5983, 5988, 5989, 5990, 5991, 5992, 5993, 5994, 5995,
       6552, 6553, 6554, 6555, 6556, 6557, 6558, 6559, 6564, 6565, 6566, 6567, 6568, 6569, 6570,
       6571, 6576, 6577, 6578, 6579, 6580, 6581, 6582, 6583, 6588, 6589, 6590, 6591, 6592, 6593,
       6594, 6595, 6852, 6853, 6854, 6855, 6856, 6857, 6858, 6859, 6864, 6865, 6866, 6867, 6868,
       6869, 6870, 6871, 6876, 6877, 6878, 6879, 6880, 6881, 6882, 6883, 6888, 6889, 6890, 6891,
       6892, 6893, 6894, 6895, 7152, 7153, 7154, 7155, 7156, 7157, 7158, 7159, 7164, 7165, 7166,
       7167, 7168, 7169, 7170, 7171, 7176, 7177, 7178, 7179, 7180, 7181, 7182, 7183, 7188, 7189,
       7190, 7191, 7192, 7193, 7194, 7195, 7452, 7453, 7454, 7455, 7456, 7457, 7458, 7459, 7464,
       7465, 7466, 7467, 7468, 7469, 7470, 7471, 7476, 7477, 7478, 7479, 7480, 7481, 7482, 7483,
       7488, 7489, 7490, 7491, 7492, 7493, 7494, 7495
    >>

\* the number of rounds of the first n preimages
RECURSIVE sum_rounds(_, _)
sum_rounds(preimages, n) ==
    IF n = 0 THEN 0 ELSE sum_rounds(preimages, n - 1) + num_rounds(preimages[n])

\* the rows of the input bytes of the rounds 0..total-1
preimage_rows(total) ==
    [i \in 1..136 * total |->
        ((i - 1) \div 136) * 300 + (((i - 1) % 136) \div 8) * 12 + ((i - 1) % 8) + 12]

\* the rows of the output bytes of the rounds listed
digest_rows(rounds) ==
    [i \in 1..32 * Len(rounds) |->
        rounds[(i - 1) \div 32 + 1] * 300 + (((i - 1) % 32) \div 8) * 12 + ((i - 1) % 8) + 252]

\* mutant: the three last digests are taken from the last round of the
\* last preimage on, which moves with the length of that preimage
get_indices_from_last_round(preimages) ==
    LET taken == IF Len(preimages) < MAX_AGG_SNARKS + 1
                 THEN Len(preimages) ELSE MAX_AGG_SNARKS + 1
        total == sum_rounds(preimages, taken)
        final == sum_rounds(preimages, Len(preimages)) - 1
    IN  [preimage_indices |-> preimage_rows(total + 3),
         digest_indices   |->
            digest_rows([p \in 1..taken |-> sum_rounds(preimages, p) - 1]
                            \o <<final, final + 1, final + 2>>)]

\* mutant: the rounds of the first MAX_AGG_SNARKS preimages are taken
get_indices_computed_one_less(preimages) ==
    LET taken == IF Len(preimages) < MAX_AGG_SNARKS
                 THEN Len(preimages) ELSE MAX_AGG_SNARKS
        total == sum_rounds(preimages, taken)
    IN  [preimage_indices |-> preimage_rows(total + 3),
         digest_indices   |->
            digest_rows([p \in 1..taken |-> sum_rounds(preimages, p) - 1]
                            \o <<total, total + 1, total + 2>>)]

\* get_indices past the precomputed data: the rows of the rounds of the
\* first MAX_AGG_SNARKS + 1 preimages, then three rounds for the data hash
get_indices_computed(preimages) ==
    LET taken == IF Len(preimages) < MAX_AGG_SNARKS + 1
                 THEN Len(preimages) ELSE MAX_AGG_SNARKS + 1
        total == sum_rounds(preimages, taken)
    IN  [preimage_indices |-> preimage_rows(total + 3),
         digest_indices   |->
            digest_rows([p \in 1..taken |-> sum_rounds(preimages, p) - 1]
                            \o <<total, total + 1, total + 2>>)]

\* whether the precomputed data is returned
use_precomputed(preimages) == MAX_AGG_SNARKS = 10 /\ Len(preimages) = 10

get_indices(preimages) ==
    IF use_precomputed(preimages)
    THEN \* use pre-computed indices
         [preimage_indices |-> precomputed_preimage_indices,
          digest_indices   |-> precomputed_digest_indices]
    ELSE get_indices_computed(preimages)

\* extract_hash_cells: the Keccak table is filled, and the input and output
\* cells at the rows of get_indices are collected
extract_hash_cells(preimages, env, keccak_input) ==
    LET rows_per_round == get_num_rows_per_round(env)
        cap     == capacity(Pow2(LOG_DEGREE), env)
        witness == multi_keccak(preimages, keccak_input, cap)
        indices == get_indices(preimages)
    IN  IF ~witness.ok THEN [status |-> "panic"]
        ELSE LET witness_len == rows_per_round
                                    * (1 + (NUM_ROUNDS + 1) * witness.rounds)
                 in_rows  == SelectSeq(indices.preimage_indices,
                                       LAMBDA o : o < witness_len)
                 out_rows == SelectSeq(indices.digest_indices,
                                       LAMBDA o : o < witness_len)
             IN  IF \/ Len(in_rows) # MAX_KECCAK_ROUNDS * ROUND_LEN
                    \/ Len(out_rows) # (MAX_AGG_SNARKS + 4) * DIGEST_LEN
                 THEN \* a sanity assert_eq on the number of cells fails
                      [status |-> "panic"]
                 ELSE [status |-> "ok",
                       capacity |-> cap,
                       preimage_indices |-> in_rows,
                       digest_indices   |-> out_rows,
                       hash_input_cells |->
                            [i \in 1..Len(in_rows) |->
                                keccak_input_cell(witness, in_rows[i], rows_per_round)],
                       hash_output_cells |->
                            [i \in 1..Len(out_rows) |->
                                keccak_output_cell(witness, out_rows[i], rows_per_round)],
                       data_rlc_cells |->
                            [i \in 1..Len(data_rlc_rows(witness_len)) |->
                                keccak_data_rlc_cell(witness,
                                    data_rlc_rows(witness_len)[i],
                                    rows_per_round, keccak_input)]]

parse_hash_preimage_cells(cells) ==
    [batch_pi_hash_preimage  |-> SubSeq(cells, 1, ROUND_LEN * 2),
     chunk_pi_hash_preimages |->
        [i \in 1..MAX_AGG_SNARKS |->
            SubSeq(cells, ROUND_LEN * 2 * i + 1, ROUND_LEN * 2 * (i + 1))],
     potential_batch_data_hash_preimage |->
        SubSeq(cells, ROUND_LEN * 2 * (MAX_AGG_SNARKS + 1) + 1, Len(cells))]

parse_hash_digest_cells(cells) ==
    [batch_pi_hash_digest  |-> SubSeq(cells, 1, DIGEST_LEN),
     chunk_pi_hash_digests |->
        [i \in 1..MAX_AGG_SNARKS |->
            SubSeq(cells, DIGEST_LEN * i + 1, DIGEST_LEN * (i + 1))],
     potential_batch_data_hash_digest |->
        SubSeq(cells, DIGEST_LEN * (MAX_AGG_SNARKS + 1) + 1, Len(cells))]

\* ---------------------------------------------------------------------
\* The relations between the hashes
\* ---------------------------------------------------------------------
PREV_STATE_ROOT_INDEX == CHAIN_ID_LEN
POST_STATE_ROOT_INDEX == CHAIN_ID_LEN + DIGEST_LEN
WITHDRAW_ROOT_INDEX == CHAIN_ID_LEN + 2 * DIGEST_LEN
CHUNK_DATA_HASH_INDEX == CHAIN_ID_LEN + 3 * DIGEST_LEN

\* cells[from + i] for i in 0..len-1, the cells counted from 0
Slice(cells, from, len) == SubSeq(cells, from + 1, from + len)

\* mutant: the post state root is compared with the one of the first slot
rule_2_first_slot(batch_pi_hash_preimage, chunk_pi_hash_preimages) ==
    \A i \in 0..31 :
        /\ batch_pi_hash_preimage[i + PREV_STATE_ROOT_INDEX + 1]
                = chunk_pi_hash_preimages[1][i + PREV_STATE_ROOT_INDEX + 1]
        /\ batch_pi_hash_preimage[i + POST_STATE_ROOT_INDEX + 1]
                = chunk_pi_hash_preimages[1][i + POST_STATE_ROOT_INDEX + 1]
        /\ batch_pi_hash_preimage[i + WITHDRAW_ROOT_INDEX + 1]
                = chunk_pi_hash_preimages[MAX_AGG_SNARKS][i + WITHDRAW_ROOT_INDEX + 1]

\* 2. batch_pi_hash used same roots as chunk_pi_hash
rule_2(batch_pi_hash_preimage, chunk_pi_hash_preimages) ==
    \A i \in 0..31 :
        /\ batch_pi_hash_preimage[i + PREV_STATE_ROOT_INDEX + 1]
                = chunk_pi_hash_preimages[1][i + PREV_STATE_ROOT_INDEX + 1]
        /\ batch_pi_hash_preimage[i + POST_STATE_ROOT_INDEX + 1]
                = chunk_pi_hash_preimages[MAX_AGG_SNARKS][i + POST_STATE_ROOT_INDEX + 1]
        /\ batch_pi_hash_preimage[i + WITHDRAW_ROOT_INDEX + 1]
                = chunk_pi_hash_preimages[MAX_AGG_SNARKS][i + WITHDRAW_ROOT_INDEX + 1]

\* mutant: only the first two slots are compared
rule_4_first_pair(chunk_pi_hash_preimages) ==
    \A j \in 0..31 :
        chunk_pi_hash_preimages[2][PREV_STATE_ROOT_INDEX + j + 1]
            = chunk_pi_hash_preimages[1][POST_STATE_ROOT_INDEX + j + 1]

\* 4. chunks are continuous: they are linked via the state roots
rule_4(chunk_pi_hash_preimages) ==
    \A i \in 1..MAX_AGG_SNARKS - 1 : \A j \in 0..31 :
        chunk_pi_hash_preimages[i + 1][PREV_STATE_ROOT_INDEX + j + 1]
            = chunk_pi_hash_preimages[i][POST_STATE_ROOT_INDEX + j + 1]

\* 5. the hashes use a same chain id
rule_5(batch_pi_hash_preimage, chunk_pi_hash_preimages) ==
    \A i \in 1..MAX_AGG_SNARKS : \A j \in 0..CHAIN_ID_LEN - 1 :
        batch_pi_hash_preimage[j + 1] = chunk_pi_hash_preimages[i][j + 1]

\* copy_constraints: every equality is asserted on the values (a failure
\* panics) and handed to the backend as a copy constraint
copy_constraints(hash_input_cells) ==
    The({ [rule2 |-> rule_2(parsed.batch_pi_hash_preimage,
                            parsed.chunk_pi_hash_preimages),
           rule4 |-> rule_4(parsed.chunk_pi_hash_preimages),
           rule5 |-> rule_5(parsed.batch_pi_hash_preimage,
                            parsed.chunk_pi_hash_preimages)] :
            parsed \in {parse_hash_preimage_cells(hash_input_cells)} })

\* the number of bits of the elements of the scalar field (254 for Fr)
RECURSIVE bit_length(_)
bit_length(v) == IF v = 0 THEN 0 ELSE 1 + bit_length(v \div 2)

\* gate.sub: a - b in the scalar field
Fr_sub(a, b) == (a - b) % FrModulus

\* gate.num_to_bits: the bits of a field element, the lowest first
num_to_bits(c, range_bits) == [i \in 1..range_bits |-> (c \div Pow2(i - 1)) % 2]

\* mutant: the lowest bit of a - b is returned
is_smaller_than_lowest_bit(a, b) ==
    LET c      == Fr_sub(a, b)
        c_bits == num_to_bits(c, bit_length(FrModulus))
    IN  c_bits[1]

\* is_smaller_than: the boolean cell a < b.  If a < b there is a wraparound
\* in a - b and the last bit of its decomposition is 1, else it is 0
is_smaller_than(a, b) ==
    LET c      == Fr_sub(a, b)
        c_bits == num_to_bits(c, bit_length(FrModulus))
    IN  last(c_bits)

chunk_is_valid(num_of_valid_chunks) ==
    [i \in 1..MAX_AGG_SNARKS |-> is_smaller_than(i - 1, num_of_valid_chunks)]

\* the three flags that select the digest of the data hash
data_hash_flags(number_of_valid_snarks) ==
    LET flag1     == is_smaller_than(number_of_valid_snarks, 4)
        not_flag1 == 1 - flag1
        flag2     == is_smaller_than(number_of_valid_snarks, 8)
        flag3     == 1 - flag2
    IN  <<flag1, not_flag1 * flag2, flag3>>

\* assert_exist: a is one of b1, b2, b3
assert_exist(a, b1, b2, b3) == a = b1 \/ a = b2 \/ a = b3

\* mutant: a = b is asserted whatever the condition is
assert_conditional_equal_unconditional(a, b, cond) == a = b

\* assert_conditional_equal: a = b where the condition is 1
assert_conditional_equal(a, b, cond) == cond = 1 => a = b

\* the digest cell that the flags select for the byte i * 8 + j of the
\* data hash: flag1 * d[(3-i)*8+j] + flag2 * d[..+32] + flag3 * d[..+64]
selected_digest_cell(flags, potential_batch_data_hash_digest, i, j) ==
    (flags[1] * potential_batch_data_hash_digest[(3 - i) * 8 + j + 1]
        + flags[2] * potential_batch_data_hash_digest[(3 - i) * 8 + j + 32 + 1]
        + flags[3] * potential_batch_data_hash_digest[(3 - i) * 8 + j + 64 + 1])
            % FrModulus

\* the rules 1, 3, 6 and 7 on the parsed cells and the rlc of the data hash
\* preimage.  checkN is whether the assertions of rule N on the values
\* pass (the call panics when one fails); ruleN is whether the constraints
\* of rule N are satisfied by the cells.  Rule 7 has an assertion and no
\* constraint.
conditional_rules(inputs, outputs, rlc_cell, data_rlc_cells, is_valid, flags, number_of_valid_snarks) ==
    LET is_pad == [i \in 1..MAX_AGG_SNARKS |-> 1 - is_valid[i]]
        batch  == inputs.batch_pi_hash_preimage
        chunks == inputs.chunk_pi_hash_preimages
        digest == outputs.potential_batch_data_hash_digest
        rlc1   == data_rlc_cells[MAX_AGG_SNARKS * 2 + 3 + 1]
        rlc2   == data_rlc_cells[MAX_AGG_SNARKS * 2 + 4 + 1]
        rlc3   == data_rlc_cells[MAX_AGG_SNARKS * 2 + 5 + 1]
    IN  [check1 |->
            \A i \in 0..3 : \A j \in 0..7 :
                assert_exist(batch[i * 8 + j + CHUNK_DATA_HASH_INDEX + 1],
                             digest[(3 - i) * 8 + j + 1],
                             digest[(3 - i) * 8 + j + 32 + 1],
                             digest[(3 - i) * 8 + j + 64 + 1]),
         check3 |-> assert_exist(rlc_cell, rlc1, rlc2, rlc3),
         check6 |->
            \A i \in 1..MAX_AGG_SNARKS : \A j \in 0..DIGEST_LEN - 1 :
                assert_conditional_equal(
                    chunks[i][j + PREV_STATE_ROOT_INDEX + 1],
                    chunks[i][j + POST_STATE_ROOT_INDEX + 1], is_pad[i]),
         check7 |->
            \A i \in 1..MAX_AGG_SNARKS : \A j \in 0..DIGEST_LEN - 1 :
                assert_conditional_equal(
                    chunks[i][j + CHUNK_DATA_HASH_INDEX + 1], 0, is_pad[i]),
         rlc_cell |-> rlc_cell,
         data_rlc |-> <<rlc1, rlc2, rlc3>>,
         is_valid |-> is_valid,
         flags |-> flags,
         data_hash_digest |->
            [p \in 1..DIGEST_LEN |->
                selected_digest_cell(flags, digest, (p - 1) \div 8, (p - 1) % 8)],
         rule1 |->
            \A i \in 0..3 : \A j \in 0..7 :
                batch[i * 8 + j + CHUNK_DATA_HASH_INDEX + 1]
                    = selected_digest_cell(flags, digest, i, j),
         rule3 |-> rlc_cell = rlc1 \/ rlc_cell = rlc2 \/ rlc_cell = rlc3,
         rule6 |->
            \A i \in 1..MAX_AGG_SNARKS : \A j \in 0..DIGEST_LEN - 1 :
                ((chunks[i][j + PREV_STATE_ROOT_INDEX + 1]
                    - chunks[i][j + POST_STATE_ROOT_INDEX + 1]) * is_pad[i]) = 0,
         \* the constraint of rule 7 is commented out: none is laid
         rule7 |-> TRUE,
         num_valid_snarks |-> number_of_valid_snarks]

\* conditional_constraints: the flags of the valid chunks and of the data
\* hash are computed, the cells are parsed, the rlc of the data hash
\* preimage is taken under the flags, and the rules 1, 3, 6 and 7 are laid
conditional_constraints(hash_input_cells, hash_output_cells, data_rlc_cells, keccak_input, num_of_valid_chunks) ==
    The({ conditional_rules(
            inputs, outputs,
            rlc_with_flag(
                SubSeq(inputs.potential_batch_data_hash_preimage,
                       1, DIGEST_LEN * MAX_AGG_SNARKS),
                keccak_input,
                [p \in 1..DIGEST_LEN * MAX_AGG_SNARKS |->
                    is_valid[(p - 1) \div 32 + 1]]),
            data_rlc_cells, is_valid, flags, num_of_valid_chunks) :
            inputs   \in {parse_hash_preimage_cells(hash_input_cells)},
            outputs  \in {parse_hash_digest_cells(hash_output_cells)},
            is_valid \in {chunk_is_valid(num_of_valid_chunks)},
            flags    \in {data_hash_flags(num_of_valid_chunks)} })

\* every assertion of conditional_constraints passes
conditional_asserted(cond) == cond.check1 /\ cond.check3 /\ cond.check6 /\ cond.check7

\* what assign_batch_hashes has laid on the cells it extracted; of the
\* batch public input hash and of the first and last chunk slot, the 136
\* cells of the preimage are kept
assigned_hashes(cells, copy, cond) ==
    [status   |-> "ok",
     capacity |-> cells.capacity,
     preimage_indices |-> cells.preimage_indices,
     digest_indices   |-> cells.digest_indices,
     num_input_cells  |-> Len(cells.hash_input_cells),
     num_output_cells |-> Len(cells.hash_output_cells),
     batch_pi_hash_preimage |-> SubSeq(cells.hash_input_cells, 1, ROUND_LEN),
     first_slot |-> SubSeq(cells.hash_input_cells,
                           ROUND_LEN * 2 + 1, ROUND_LEN * 3),
     last_slot  |-> SubSeq(cells.hash_input_cells,
                           ROUND_LEN * 2 * MAX_AGG_SNARKS + 1,
                           ROUND_LEN * (2 * MAX_AGG_SNARKS + 1)),
     data_hash_digest |-> cond.data_hash_digest,
     rlc_cell |-> cond.rlc_cell,
     data_rlc |-> cond.data_rlc,
     chunk_is_valid |-> cond.is_valid,
     flags |-> cond.flags,
     rule1 |-> cond.rule1,
     rule2 |-> copy.rule2,
     rule3 |-> cond.rule3,
     rule4 |-> copy.rule4,
     rule5 |-> copy.rule5,
     rule6 |-> cond.rule6,
     num_valid_snarks |-> cond.num_valid_snarks]

\* the constraints on the cells extracted: a failed assertion of
\* copy_constraints or of conditional_constraints is a panic
constrain_hashes(cells, keccak_input, num_of_valid_chunks) ==
    IF cells.status # "ok" THEN [status |-> "panic"]
    ELSE The({ IF ~(copy.rule2 /\ copy.rule4 /\ copy.rule5)
               THEN [status |-> "panic"]
               ELSE The({ IF ~conditional_asserted(cond) THEN [status |-> "panic"]
                          ELSE assigned_hashes(cells, copy, cond) :
                            cond \in {conditional_constraints(
                                        cells.hash_input_cells,
                                        cells.hash_output_cells,
                                        cells.data_rlc_cells, keccak_input,
                                        num_of_valid_chunks)} }) :
                copy \in {copy_constraints(cells.hash_input_cells)} })

\* assign_batch_hashes: the cells are extracted, then the copy constraints
\* and the conditional constraints are laid on them
assign_batch_hashes(preimages, num_of_valid_chunks, env, keccak_input) ==
    The({ constrain_hashes(cells, keccak_input, num_of_valid_chunks) :
            cells \in {extract_hash_cells(preimages, env, keccak_input)} })

\* ---------------------------------------------------------------------
\* AggregationCircuit
\* ---------------------------------------------------------------------
NoAggregation == [status |-> "none"]

\* Fr::from(x as u64): the field element of a small natural is that natural
Fr_from(x) == x

\* mutant: the limbs come out most-significant first
fe_to_limbs_big_endian(fe) ==
    [i \in 1..LIMBS |-> (fe \div Pow2(BITS * (LIMBS - i))) % Pow2(BITS)]

\* (big >> shift) & mask for shift = 0, BITS, 2*BITS, ...
fe_to_limbs(fe) ==
    [i \in 1..LIMBS |-> Fr_from((fe \div Pow2(BITS * (i - 1))) % Pow2(BITS))]

\* BatchHash::instances_exclude_acc: the bytes of the public input hash
instances_exclude_acc(batch_hash) ==
    << [i \in 1..DIGEST_LEN |-> Fr_from(batch_hash.public_input_hash[i])] >>

\* the sanity check of the child instances against the chunks of the batch
snarks_match_chunks(batch_hash, snarks_with_padding) ==
    \A i \in 1..MAX_AGG_SNARKS :
        i <= Len(snarks_with_padding) =>
            LET chunk_hash_bytes == public_input_hash(batch_hash.chunks_with_padding[i])
                snark_hash_bytes == snarks_with_padding[i]
            IN  /\ Len(snark_hash_bytes) = ACC_LEN + DIGEST_LEN
                /\ \A j \in 1..32 :
                        Fr_from(chunk_hash_bytes[j]) = snark_hash_bytes[j + ACC_LEN]

\* mutant: the hash and the chunk count come before the accumulator
flattened_instances_hash_first(accumulator, batch_hash) ==
    Concat(<<instances_exclude_acc(batch_hash)[1],
             <<Fr_from(batch_hash.number_of_valid_chunks)>>,
             Concat(<<fe_to_limbs(accumulator.lhs.x), fe_to_limbs(accumulator.lhs.y),
                      fe_to_limbs(accumulator.rhs.x), fe_to_limbs(accumulator.rhs.y)>>)>>)

flattened_instances(accumulator, batch_hash) ==
    LET acc_instances ==
            Concat(<<fe_to_limbs(accumulator.lhs.x), fe_to_limbs(accumulator.lhs.y),
                     fe_to_limbs(accumulator.rhs.x), fe_to_limbs(accumulator.rhs.y)>>)
        public_input_hash_elems == instances_exclude_acc(batch_hash)[1]
    IN  Concat(<<acc_instances,
                 public_input_hash_elems,
                 <<Fr_from(batch_hash.number_of_valid_chunks)>>>>)

\* CircuitExt::num_instance: the length of each instance column
num_instance(self) == << ACC_LEN + DIGEST_LEN >>

\* CircuitExt::instances
CircuitExt_instances(self) == << self.flattened_instances >>

\* CircuitExt::accumulator_indices: (column, row) of each accumulator limb
accumulator_indices == [idx \in 1..ACC_LEN |-> <<0, idx - 1>>]

\* ---------------------------------------------------------------------
\* Inputs
\* ---------------------------------------------------------------------
ChainIds == {0, 1, 534352}
Seeds == 1..NumSeeds

\* a correctly linked list of k random chunks
mock_chunks(k, seed, chain) ==
    [i \in 1..k |->
        ChunkHash(chain, H256Of(10 * seed + i), H256Of(10 * seed + i + 1),
                  H256Of(100 + 10 * seed + i), H256Of(150 + 10 * seed + i))]

corrupt(chunks, kind, at) ==
    CASE kind = "prev"  ->
            [chunks EXCEPT ![at].prev_state_root = H256Of(255)]
      [] kind = "chain" ->
            [chunks EXCEPT ![at].chain_id = chunks[at].chain_id + 1]
      [] OTHER -> chunks

InputLists ==
    { corrupt(mock_chunks(k, seed, chain), t[1], t[2]) :
        <<k, seed, chain, t>> \in
            { <<k, seed, chain, t>> \in
                (0..MAX_AGG_SNARKS + 1) \X Seeds \X ChainIds
                    \X ({"none", "prev", "chain"} \X (1..MAX_AGG_SNARKS + 1)) :
                /\ t[1] = "none" => t[2] = 1
                /\ t[1] = "prev" => t[2] \in 2..k
                /\ t[1] = "chain" => t[2] \in 1..k /\ k >= 2 } }

\* the child instances of the MAX_AGG_SNARKS slots of a batch: an all-zero
\* accumulator, then the bytes of the slot's public input hash
honest_snarks(batch_hash) ==
    [i \in 1..MAX_AGG_SNARKS |->
        [j \in 1..ACC_LEN |-> 0]
            \o public_input_hash(batch_hash.chunks_with_padding[i])]

tamper(snarks, kind, at) ==
    CASE kind = "len"   -> [snarks EXCEPT ![at] = SubSeq(@, 1, Len(@) - 1)]
      [] kind = "byte"  -> [snarks EXCEPT ![at][ACC_LEN + 1] = (@ + 1) % 256]
      [] kind = "fewer" -> SubSeq(snarks, 1, at)
      [] kind = "more"  -> Append(snarks, snarks[at])
      [] OTHER -> snarks

Tamperings ==
    {<<"none", 1>>, <<"len", 1>>, <<"len", MAX_AGG_SNARKS>>,
     <<"byte", 1>>, <<"byte", MAX_AGG_SNARKS>>, <<"fewer", MAX_AGG_SNARKS - 1>>,
     <<"more", MAX_AGG_SNARKS>>}

ProofSeeds == 0..NumProofSeeds - 1

\* the preimages of a batch of n chunks built by BatchHash::construct
batch_preimages(n) ==
    BatchHash_extract_hash_preimages(BatchHash_construct(mock_chunks(n, 1, 0)))

\* the preimage list with `bytes` written from byte `from` of entry `at`
write_bytes(list, at, from, bytes) ==
    [list EXCEPT ![at] =
        [p \in 1..Len(list[at]) |->
            IF p > from /\ p <= from + Len(bytes) THEN bytes[p - from] ELSE list[at][p]]]

\* the state roots of the slots from..MAX_AGG_SNARKS - 1 (counted from 0)
\* set to `root`: the prev_state_root of each, and the post_state_root of
\* each when `post` is set, which the batch public input hash then follows
RECURSIVE reroot(_, _, _, _)
reroot(list, from, root, post) ==
    IF from >= MAX_AGG_SNARKS
    THEN IF post THEN write_bytes(list, 1, POST_STATE_ROOT_INDEX, root) ELSE list
    ELSE LET prev_set == write_bytes(list, from + 2, PREV_STATE_ROOT_INDEX, root)
         IN  IF post
             THEN reroot(write_bytes(prev_set, from + 2, POST_STATE_ROOT_INDEX, root),
                         from + 1, root, post)
             ELSE prev_set

\* the preimage list of a batch of n chunks, altered:
\*   "link"      the chain of state roots is broken before slot `at`
\*   "pad_shape" the post_state_root of the last slot, a padded one, is
\*               another root, and so is the one of the batch
\*   "pad_data"  the data hash of slot `at`, a padded one, is not zero
\*   "prefix"    the data hash preimage is 32 * n zero bytes and 32 more
\*               bytes, and the batch public input hash holds its digest
altered(n, kind, at) ==
    LET list == batch_preimages(n)
    IN  CASE kind = "link" -> reroot(list, at, H256Of(255), at >= n)
          [] kind = "pad_shape" ->
                write_bytes(write_bytes(list, MAX_AGG_SNARKS + 1,
                                        POST_STATE_ROOT_INDEX, H256Of(254)),
                            1, POST_STATE_ROOT_INDEX, H256Of(254))
          [] kind = "pad_data" ->
                write_bytes(list, at + 2, CHUNK_DATA_HASH_INDEX, H256Of(77))
          [] kind = "prefix" ->
                LET data == [i \in 1..32 * n |-> 0] \o H256Of(99)
                IN  write_bytes([list EXCEPT ![MAX_AGG_SNARKS + 2] = data],
                                1, CHUNK_DATA_HASH_INDEX, keccak256(data))
          [] OTHER -> list

\* the arguments of the calls of assign_batch_hashes: the preimages of a
\* batch, as constructed or altered, the number of valid chunks, which is
\* the one of the batch or one less or more, and the challenge
AssignBatchHashesCalls ==
    { [fn |-> "assign_batch_hashes",
       preimages |-> altered(t[1], t[2], t[3]),
       num_of_valid_chunks |-> t[4],
       keccak_input |-> t[5],
       ret |-> <<>>] :
        t \in { t \in (1..MAX_AGG_SNARKS) \X {"none", "link", "pad_shape", "pad_data", "prefix"}
                        \X (0..MAX_AGG_SNARKS - 1) \X (0..MAX_AGG_SNARKS) \X KeccakInputs :
                /\ t[2] = "none" => t[3] = 0 /\ t[4] \in {t[1] - 1, t[1], t[1] + 1} \ {0}
                /\ t[2] # "none" => t[4] = t[1] /\ t[5] = 3
                /\ t[4] # t[1] => t[5] = 3
                /\ t[2] = "link" => t[3] \in {t[1] - 1, t[1], t[1] + 1} \ {0}
                /\ t[2] = "pad_shape" => t[3] = MAX_AGG_SNARKS - 1 /\ t[1] < MAX_AGG_SNARKS
                /\ t[2] = "pad_data" => t[3] \in {t[1], MAX_AGG_SNARKS - 1}
                                            /\ t[1] < MAX_AGG_SNARKS
                /\ t[2] = "prefix" => t[3] = 0 /\ t[1] <= 3 } }

\* the arguments of the calls of chunk_is_valid and of is_smaller_than
ChunkIsValidCalls ==
    { [fn |-> "chunk_is_valid", num_of_valid_chunks |-> n, ret |-> <<>>] :
        n \in 0..MAX_AGG_SNARKS }

IsSmallerThanCalls ==
    { [fn |-> "is_smaller_than", a |-> a, b |-> b, ret |-> <<>>] :
        a \in 0..MAX_AGG_SNARKS + 1, b \in 0..MAX_AGG_SNARKS + 1 }

\* the preimage lists get_indices is called on: the MAX_AGG_SNARKS + 2
\* preimages of a batch, the same without the data hash preimage, the first
\* MAX_AGG_SNARKS of them, and the n + 2 preimages of a BatchHashCircuit
GetIndicesCalls ==
    { [fn |-> "get_indices", preimages |-> list, ret |-> <<>>] :
        list \in UNION { { batch_preimages(n),
                           SubSeq(batch_preimages(n), 1, MAX_AGG_SNARKS + 1),
                           SubSeq(batch_preimages(n), 1, MAX_AGG_SNARKS),
                           extract_hash_preimages(
                                [chain_id |-> 0, chunks |-> mock_chunks(n, 1, 0),
                                 batch |-> BatchHash_construct(mock_chunks(n, 1, 0))]) } :
                         n \in 1..MAX_AGG_SNARKS } }

\* the field elements and the challenges rlc is called on
RlcValues == {0, 3, 7}
RlcInputs == UNION { [1..n -> RlcValues] : n \in 1..MaxRlcLen }
RlcRandomness == {2, 19}

RlcCalls ==
    { [fn |-> "rlc", inputs |-> inputs, randomness |-> r, ret |-> <<>>] :
        inputs \in RlcInputs, r \in RlcRandomness }

\* rlc_with_flag is called with flags that are ones, then zeros
RlcWithFlagCalls ==
    { [fn |-> "rlc_with_flag", inputs |-> c[1], randomness |-> c[2],
       flags |-> [i \in 1..Len(c[1]) |-> IF i <= c[3] THEN 1 ELSE 0], ret |-> <<>>] :
        c \in { c \in RlcInputs \X RlcRandomness \X (1..MaxRlcLen) : c[3] <= Len(c[1]) } }

Calls ==
    AssignBatchHashesCalls \cup ChunkIsValidCalls \cup IsSmallerThanCalls
        \cup GetIndicesCalls \cup RlcCalls \cup RlcWithFlagCalls

\* ---------------------------------------------------------------------
\* Accumulators and their folding
\* ---------------------------------------------------------------------
\* The curve group is written additively as the integers modulo FqModulus;
\* a point is named by that integer, which is also its x coordinate.
ec_point(g) == [x |-> g, y |-> (g * g + 3) % FqModulus]

ec_add(p1, p2) == ec_point((p1.x + p2.x) % FqModulus)

ec_mul(p1, scalar) == ec_point((p1.x * scalar) % FqModulus)

KzgAccumulator(lhs, rhs) == [lhs |-> lhs, rhs |-> rhs]

\* the proof of child i: the padded slots all carry the same proof
child_proof(ps, i, number_of_valid_chunks) ==
    LET slot == IF i <= number_of_valid_chunks THEN i ELSE number_of_valid_chunks + 1
    IN  (17 * ps + 5 * slot + 2) % FqModulus

\* PoseidonTranscript::from_spec(&[], ..): nothing to read, a fresh sponge
PoseidonTranscript_from_spec == [stream |-> 0, buf |-> 0]

\* mutant: the sponge keeps what the previous child absorbed
new_stream_keeps_buf(transcript, stream) == [stream |-> stream, buf |-> transcript.buf]

\* PoseidonTranscript::new_stream: the sponge is cleared and reads `stream`
new_stream(transcript, stream) == [stream |-> stream, buf |-> 0]

\* Shplonk::read_proof: the proof is read off the stream while the sponge
\* absorbs the instances and the proof; the evaluation point is squeezed
\* from the sponge
read_proof(instances, transcript) ==
    LET absorbed == (31 * transcript.buf + 7 * transcript.stream
                        + instances[ACC_LEN + 1] + 1) % FqModulus
    IN  [proof      |-> [w |-> transcript.stream, z |-> absorbed],
         transcript |-> [stream |-> 0, buf |-> absorbed]]

\* Shplonk::succinct_verify: the accumulators (lhs, rhs) of one child
succinct_verify(instances, proof) ==
    << KzgAccumulator(ec_point((3 * proof.w + proof.z) % FqModulus),
                      ec_point((proof.w + 5 * proof.z + 1) % FqModulus)) >>

\* the challenge squeezed from the write transcript, which has absorbed
\* the lhs and the rhs of every accumulator in order
RECURSIVE squeeze_challenge(_, _)
squeeze_challenge(accumulators, n) ==
    IF n = 0 THEN 1
    ELSE (29 * squeeze_challenge(accumulators, n - 1)
            + 7 * accumulators[n].lhs.x + 3 * accumulators[n].rhs.x + n) % FqModulus

\* r.powers(n): 1, r, r^2, ..., r^(n-1)
RECURSIVE powers(_, _)
powers(r, n) ==
    IF n = 0 THEN <<>>
    ELSE IF n = 1 THEN <<1>>
    ELSE LET prev == powers(r, n - 1)
         IN  Append(prev, (prev[n - 1] * r) % FqModulus)

RECURSIVE ec_sum(_, _)
ec_sum(points, n) ==
    IF n = 0 THEN ec_point(0) ELSE ec_add(ec_sum(points, n - 1), points[n])

\* mutant: the powers of r are applied in reverse child order
KzgAs_create_proof_reversed(accumulators, r) ==
    LET n == Len(accumulators)
        powers_of_r == powers(r, n)
    IN  KzgAccumulator(
            ec_sum([i \in 1..n |-> ec_mul(accumulators[i].lhs, powers_of_r[n + 1 - i])], n),
            ec_sum([i \in 1..n |-> ec_mul(accumulators[i].rhs, powers_of_r[n + 1 - i])], n))

\* KzgAs::create_proof:
\* accumulated ec_pt = ec_pt_1 * 1 + ec_pt_2 * r + ... + ec_pt_n * r^{n-1}
KzgAs_create_proof(accumulators, r) ==
    LET n == Len(accumulators)
        powers_of_r == powers(r, n)
    IN  KzgAccumulator(
            ec_sum([i \in 1..n |-> ec_mul(accumulators[i].lhs, powers_of_r[i])], n),
            ec_sum([i \in 1..n |-> ec_mul(accumulators[i].rhs, powers_of_r[i])], n))

\* mutant: the fold starts as soon as one child has been verified
some_collected(done, snarks_with_padding) == done >= 1

\* .collect::<Vec<_>>(): the iterator over the snarks has been exhausted
all_collected(done, snarks_with_padding) == done = Len(snarks_with_padding)

\* ---------------------------------------------------------------------
\* State
\* ---------------------------------------------------------------------
VARIABLES
    pc,               \* position in the pipeline
    chunk_hashes,     \* the list of real chunks handed to construct
    outcome,          \* "none", "ok", an error name, or "panic"
    circuit,          \* the BatchHashCircuit built by construct
    chunk_pi,         \* one chunk with its preimage and public input hash
    preimages,        \* result of extract_hash_preimages
    snarks,           \* the child instances handed to new
    aggregation,      \* the AggregationCircuit built by new
    hash_cells,       \* the cells collected by extract_hash_cells
    proofs,           \* the proof of every child snark handed to new
    layout,           \* what AggregationCircuit::synthesize has assigned
    call,             \* a call of one of the functions of the crate on its
                      \* own: its name, its arguments and, once it has
                      \* returned, what it returned
    fold              \* the locals of extract_accumulators_and_proof; the
                      \* challenge is <<>> until it is squeezed, then <<r>>

vars == <<pc, chunk_hashes, outcome, circuit, chunk_pi, preimages, snarks,
          aggregation, hash_cells, proofs, layout, fold, call>>

NoLayout == [status |-> "none"]
NoCall == [fn |-> "none"]
NoCircuit == [chain_id |-> 0, chunks |-> <<>>, batch |-> NoBatch]
NoChunkPi == [index |-> 0]
NoCells == [status |-> "none"]
NoFold == [transcript_read |-> PoseidonTranscript_from_spec, done |-> 0,
           accumulators |-> <<>>, challenge |-> <<>>]

Init ==
    /\ pc = "start"
    /\ chunk_hashes \in InputLists
    /\ outcome = "none"
    /\ circuit = NoCircuit
    /\ chunk_pi = NoChunkPi
    /\ preimages = <<>>
    /\ snarks = <<>>
    /\ aggregation = NoAggregation
    /\ hash_cells = NoCells
    /\ proofs = <<>>
    /\ layout = NoLayout
    /\ fold = NoFold
    /\ call = NoCall

\* ChunkHash::extract_hash_preimage and ChunkHash::public_input_hash on one
\* of the chunks
ChunkPublicInputHash ==
    /\ pc = "start"
    /\ \E i \in 1..Len(chunk_hashes) :
        chunk_pi' = [index    |-> i,
                     chunk    |-> chunk_hashes[i],
                     preimage |-> extract_hash_preimage(chunk_hashes[i]),
                     hash     |-> public_input_hash(chunk_hashes[i])]
    /\ pc' = "hashed"
    /\ UNCHANGED <<chunk_hashes, outcome, circuit, preimages, snarks, aggregation,
                   hash_cells, proofs, fold, layout, call>>

\* BatchHashCircuit::construct
construct ==
    /\ pc = "start"
    /\ IF Len(chunk_hashes) = 0
       THEN \* chunk_hashes[0] is out of bounds
            /\ outcome' = "panic"
            /\ circuit' = NoCircuit
            /\ pc' = "failed"
       ELSE LET chain_id == chunk_hashes[1].chain_id
                batch    == BatchHash_construct(chunk_hashes)
            IN  IF batch.status = "ok"
                THEN /\ outcome' = "ok"
                     /\ circuit' = [chain_id |-> chain_id,
                                    chunks   |-> chunk_hashes,
                                    batch    |-> batch]
                     /\ pc' = "constructed"
                ELSE /\ outcome' = batch.status
                     /\ circuit' = NoCircuit
                     /\ pc' = "failed"
    /\ UNCHANGED <<chunk_hashes, chunk_pi, preimages, snarks, aggregation, hash_cells,
                   proofs, fold, layout, call>>

\* BatchHashCircuit::extract_hash_preimages
ExtractHashPreimages ==
    /\ pc = "constructed"
    /\ preimages' = extract_hash_preimages(circuit)
    /\ pc' = "extracted"
    /\ UNCHANGED <<chunk_hashes, outcome, circuit, chunk_pi, snarks, aggregation,
                   hash_cells, proofs, fold, layout, call>>

\* the child proofs of the MAX_AGG_SNARKS slots are generated, as in
\* build_new_aggregation_circuit, possibly with one of them altered
GenSnarks ==
    /\ pc = "constructed"
    /\ \E t \in Tamperings, ps \in ProofSeeds :
        /\ t[1] # "none" => ps = 0
        /\ snarks' = tamper(honest_snarks(circuit.batch), t[1], t[2])
        /\ proofs' = [i \in 1..Len(snarks') |->
                        child_proof(ps, i, circuit.batch.number_of_valid_chunks)]
    /\ pc' = "proved"
    /\ UNCHANGED <<chunk_hashes, outcome, circuit, chunk_pi, preimages, aggregation,
                   hash_cells, fold, layout, call>>

\* AggregationCircuit::new, up to the call of extract_accumulators_and_proof
new ==
    /\ pc = "proved"
    /\ LET batch_hash          == circuit.batch
           snarks_with_padding == snarks
       IN  IF ~snarks_match_chunks(batch_hash, snarks_with_padding)
           THEN \* an assert_eq of the sanity check fails
                /\ aggregation' = [status |-> "panic"]
                /\ pc' = "new_failed"
           ELSE /\ aggregation' = aggregation
                /\ pc' = "verifying"
    /\ fold' = NoFold
    /\ UNCHANGED <<chunk_hashes, outcome, circuit, chunk_pi, preimages, snarks,
                   hash_cells, proofs, layout, call>>

\* extract_accumulators_and_proof: one turn of the flat_map over the snarks
SuccinctVerify ==
    /\ pc = "verifying"
    /\ fold.done < Len(snarks)
    /\ LET i     == fold.done + 1
           fresh == new_stream(fold.transcript_read, proofs[i])
           read  == read_proof(snarks[i], fresh)
       IN  fold' = [fold EXCEPT
                        !.transcript_read = read.transcript,
                        !.done = i,
                        !.accumulators = @ \o succinct_verify(snarks[i], read.proof)]
    /\ UNCHANGED <<pc, chunk_hashes, outcome, circuit, chunk_pi, preimages, snarks,
                   aggregation, hash_cells, proofs, layout, call>>

\* extract_accumulators_and_proof from KzgAs::create_proof on, and the rest
\* of AggregationCircuit::new
CreateProof ==
    /\ pc = "verifying"
    /\ all_collected(fold.done, snarks)
    /\ LET batch_hash  == circuit.batch
           r           == squeeze_challenge(fold.accumulators, Len(fold.accumulators))
           accumulator == KzgAs_create_proof(fold.accumulators, r)
       IN  /\ fold' = [fold EXCEPT !.challenge = <<r>>]
           /\ aggregation' =
                   [status              |-> "ok",
                    snarks_with_padding |-> snarks,
                    accumulator         |-> accumulator,
                    flattened_instances |->
                        flattened_instances(accumulator, batch_hash),
                    batch_hash          |-> batch_hash]
    /\ pc' = "assembled"
    /\ UNCHANGED <<chunk_hashes, outcome, circuit, chunk_pi, preimages, snarks,
                   hash_cells, proofs, layout, call>>

\* extract_hash_cells on the preimages of the BatchHashCircuit
ExtractHashCells ==
    /\ pc = "extracted"
    /\ \E env \in KeccakRowsEnv, keccak_input \in KeccakInputs :
        \* the challenge is varied under the default layout of the table
        /\ env # <<>> => keccak_input = 3
        /\ LET cells == extract_hash_cells(preimages, env, keccak_input)
           IN  /\ hash_cells' = cells
               /\ pc' = IF cells.status = "ok" THEN "assigned" ELSE "assign_failed"
    /\ UNCHANGED <<chunk_hashes, outcome, circuit, chunk_pi, preimages, snarks,
                   aggregation, proofs, fold, layout, call>>

\* AggregationCircuit::synthesize
synthesize ==
    /\ pc = "assembled"
    /\ \E env \in KeccakRowsEnv, keccak_input \in KeccakInputs :
        \* the challenge is varied under the default layout of the table
        /\ env # <<>> => keccak_input = 3
        /\ LET self      == aggregation
               extracted == BatchHash_extract_hash_preimages(self.batch_hash)
           IN  IF Len(extracted) # MAX_AGG_SNARKS + 2
               THEN \* error extracting preimages
                    /\ layout' = [status |-> "panic"]
                    /\ pc' = "synthesize_failed"
               ELSE LET assigned == assign_batch_hashes(extracted,
                                        self.batch_hash.number_of_valid_chunks,
                                        env, keccak_input)
                    IN  /\ layout' = assigned
                        /\ pc' = IF assigned.status = "ok"
                                 THEN "synthesized" ELSE "synthesize_failed"
    /\ UNCHANGED <<chunk_hashes, outcome, circuit, chunk_pi, preimages, snarks,
                   aggregation, hash_cells, proofs, fold, call>>

Next ==
    \/ ChunkPublicInputHash
    \/ construct
    \/ ExtractHashPreimages
    \/ ExtractHashCells
    \/ GenSnarks
    \/ new
    \/ SuccinctVerify
    \/ CreateProof
    \/ synthesize

Spec == Init /\ [][Next]_vars

\* ---------------------------------------------------------------------
\* The functions of the crate called on their own
\* ---------------------------------------------------------------------
Others == <<chunk_hashes, outcome, circuit, chunk_pi, preimages, snarks, aggregation,
            hash_cells, proofs, layout, fold>>

CallInit ==
    /\ pc = "call"
    /\ call \in Calls
    /\ chunk_hashes = <<>>
    /\ outcome = "none"
    /\ circuit = NoCircuit
    /\ chunk_pi = NoChunkPi
    /\ preimages = <<>>
    /\ snarks = <<>>
    /\ aggregation = NoAggregation
    /\ hash_cells = NoCells
    /\ proofs = <<>>
    /\ layout = NoLayout
    /\ fold = NoFold

\* assign_batch_hashes, KECCAK_ROWS not being set
AssignBatchHashes ==
    /\ pc = "call"
    /\ call.fn = "assign_batch_hashes"
    /\ call' = [call EXCEPT !.ret =
                    <<assign_batch_hashes(call.preimages, call.num_of_valid_chunks,
                                          <<>>, call.keccak_input)>>]
    /\ pc' = "returned"
    /\ UNCHANGED Others

ChunkIsValid ==
    /\ pc = "call"
    /\ call.fn = "chunk_is_valid"
    /\ call' = [call EXCEPT !.ret = <<chunk_is_valid(call.num_of_valid_chunks)>>]
    /\ pc' = "returned"
    /\ UNCHANGED Others

IsSmallerThan ==
    /\ pc = "call"
    /\ call.fn = "is_smaller_than"
    /\ call' = [call EXCEPT !.ret = <<is_smaller_than(call.a, call.b)>>]
    /\ pc' = "returned"
    /\ UNCHANGED Others

GetIndices ==
    /\ pc = "call"
    /\ call.fn = "get_indices"
    /\ call' = [call EXCEPT !.ret = <<get_indices(call.preimages)>>]
    /\ pc' = "returned"
    /\ UNCHANGED Others

Rlc ==
    /\ pc = "call"
    /\ call.fn = "rlc"
    /\ call' = [call EXCEPT !.ret = <<rlc(call.inputs, call.randomness)>>]
    /\ pc' = "returned"
    /\ UNCHANGED Others

RlcWithFlag ==
    /\ pc = "call"
    /\ call.fn = "rlc_with_flag"
    /\ call' = [call EXCEPT !.ret =
                    <<rlc_with_flag(call.inputs, call.randomness, call.flags)>>]
    /\ pc' = "returned"
    /\ UNCHANGED Others

CallNext ==
    \/ AssignBatchHashes
    \/ ChunkIsValid
    \/ IsSmallerThan
    \/ GetIndices
    \/ Rlc
    \/ RlcWithFlag

CallSpec == CallInit /\ [][CallNext]_vars

\* ---------------------------------------------------------------------
\* Properties
\* ---------------------------------------------------------------------
k == Len(chunk_hashes)
ConstructRan == pc \notin {"start", "hashed"}
BigEndian8(v) == [i \in 1..8 |-> Shr8(v, 8 - i) % 256]
RealDataHashes == Concat([i \in 1..k |-> chunk_hashes[i].data_hash])

\* C1: the preimage of a chunk is 136 bytes: the chain id in 8 big-endian
\* bytes, then prev_state_root, post_state_root, withdraw_root and data_hash
\* (32 bytes each), and the chunk's public input hash is keccak256 of them.
C1_ChunkPreimageLayout ==
    pc = "hashed" =>
        LET c == chunk_pi.chunk
            p == chunk_pi.preimage
        IN  /\ Len(p) = 136
            /\ SubSeq(p, 1, 8) = BigEndian8(c.chain_id)
            /\ SubSeq(p, 9, 40) = c.prev_state_root
            /\ SubSeq(p, 41, 72) = c.post_state_root
            /\ SubSeq(p, 73, 104) = c.withdraw_root
            /\ SubSeq(p, 105, 136) = c.data_hash
            /\ chunk_pi.hash = keccak256(p)

C1_Witness ==
    /\ pc = "hashed"
    /\ chunk_pi.chunk.chain_id = 534352
    /\ chunk_pi.index > 1

\* C2: a correctly linked list of 1..MAX_AGG_SNARKS real chunks is accepted,
\* and the batch public input hash is keccak256 over the chain id, the first
\* real chunk's prev_state_root, the last real chunk's post_state_root and
\* withdraw_root, and the batch data hash.
C2_BatchPublicInputHash ==
    /\ (ConstructRan /\ k \in 1..MAX_AGG_SNARKS
            /\ same_chain_id(chunk_hashes) /\ is_linked(chunk_hashes))
        => outcome = "ok"
    /\ outcome = "ok" =>
        circuit.batch.public_input_hash =
            keccak256(BigEndian8(chunk_hashes[1].chain_id)
                        \o chunk_hashes[1].prev_state_root
                        \o chunk_hashes[k].post_state_root
                        \o chunk_hashes[k].withdraw_root
                        \o circuit.batch.data_hash)
    /\ pc = "extracted" =>
        /\ Len(preimages[1]) = 136
        /\ SubSeq(preimages[1], 9, 136) =
                chunk_hashes[1].prev_state_root
                    \o chunk_hashes[k].post_state_root
                    \o chunk_hashes[k].withdraw_root
                    \o circuit.batch.data_hash

C2_Witness ==
    /\ pc = "extracted"
    /\ k = 3
    /\ chunk_hashes[1].post_state_root # chunk_hashes[k].post_state_root

\* C3: the batch data hash is keccak256 of the data hashes of the k real
\* chunks, in order, 32*k bytes; no padding slot's data hash is hashed.
C3_BatchDataHash ==
    /\ outcome = "ok" =>
        /\ Len(RealDataHashes) = 32 * k
        /\ circuit.batch.data_hash = keccak256(RealDataHashes)
    /\ pc = "extracted" => preimages[2] = RealDataHashes

C3_Witness ==
    /\ pc = "extracted"
    /\ k = 2

\* C4: the padded array has MAX_AGG_SNARKS entries, the first k are the real
\* chunks in order, and every later entry repeats the last real chunk's
\* chain id, post_state_root (as prev and post) and withdraw_root with a
\* zero data hash, so that is_padding holds for it.
C4_Padding ==
    outcome = "ok" =>
        LET padded == circuit.batch.chunks_with_padding
        IN  /\ Len(padded) = MAX_AGG_SNARKS
            /\ \A i \in 1..k : padded[i] = chunk_hashes[i]
            /\ \A i \in k + 1..MAX_AGG_SNARKS :
                /\ padded[i].chain_id = chunk_hashes[k].chain_id
                /\ padded[i].prev_state_root = chunk_hashes[k].post_state_root
                /\ padded[i].post_state_root = chunk_hashes[k].post_state_root
                /\ padded[i].withdraw_root = chunk_hashes[k].withdraw_root
                /\ padded[i].data_hash = ZeroH256
                /\ is_padding(padded[i])

C4_Witness ==
    /\ outcome = "ok"
    /\ k = 4
    /\ is_padding(circuit.batch.chunks_with_padding[MAX_AGG_SNARKS])
    /\ ~is_padding(circuit.batch.chunks_with_padding[k])

\* C6: a list of 2..MAX_AGG_SNARKS chunks of one chain in which some chunk's
\* prev_state_root differs from its predecessor's post_state_root is rejected
\* with BrokenChunkLinkage and no batch; an accepted list is linked.
C6_BrokenLinkageRejected ==
    /\ (/\ ConstructRan
        /\ k \in 2..MAX_AGG_SNARKS
        /\ same_chain_id(chunk_hashes)
        /\ \E i \in 2..k :
                chunk_hashes[i].prev_state_root # chunk_hashes[i - 1].post_state_root)
        => (outcome = "BrokenChunkLinkage" /\ circuit = NoCircuit)
    /\ outcome = "ok" =>
        \A i \in 2..k :
            chunk_hashes[i].prev_state_root = chunk_hashes[i - 1].post_state_root

C6_Witness ==
    /\ outcome = "BrokenChunkLinkage"
    /\ k = MAX_AGG_SNARKS
    /\ chunk_hashes[k].prev_state_root # chunk_hashes[k - 1].post_state_root
    /\ \A i \in 2..k - 1 :
            chunk_hashes[i].prev_state_root = chunk_hashes[i - 1].post_state_root

\* C7: construction of a well-formed list fails with InvalidChunkCount
\* exactly when it has no chunk or more than MAX_AGG_SNARKS chunks, never
\* panics, and produces nothing when it fails.
C7_InvalidChunkCount ==
    (ConstructRan /\ same_chain_id(chunk_hashes) /\ is_linked(chunk_hashes)) =>
        /\ outcome # "panic"
        /\ (outcome = "InvalidChunkCount") <=> (k = 0 \/ k > MAX_AGG_SNARKS)
        /\ k \in 1..MAX_AGG_SNARKS => outcome = "ok"
        /\ outcome # "ok" => circuit = NoCircuit

\* C8: in an accepted batch every chunk preimage starts with the same 8
\* chain-id bytes as the batch public-input-hash preimage, in the byte order
\* of ChunkHash::extract_hash_preimage; chunks of different chain ids are
\* rejected with ChainIdMismatch.
C8_ChainIdUniform ==
    /\ pc = "extracted" =>
        \A i \in 1..Len(preimages) - 2 :
            /\ SubSeq(preimages[i + 2], 1, CHAIN_ID_LEN)
                    = SubSeq(preimages[1], 1, CHAIN_ID_LEN)
            /\ SubSeq(preimages[i + 2], 1, CHAIN_ID_LEN)
                    = SubSeq(extract_hash_preimage(circuit.chunks[i]), 1, CHAIN_ID_LEN)
    /\ (ConstructRan /\ k \in 1..MAX_AGG_SNARKS /\ ~same_chain_id(chunk_hashes))
        => outcome = "ChainIdMismatch"

\* C5: extract_hash_preimages returns MAX_AGG_SNARKS + 2 preimages: the
\* 136-byte batch public-input-hash preimage, the batch data-hash preimage
\* of 32 * MAX_AGG_SNARKS bytes over all slots, then the 136-byte preimage of
\* every chunk slot; the cells are collected and parse_hash_preimage_cells
\* reads the preimages in that order.
C5_PreimageOrder ==
    /\ pc \in {"extracted", "assigned", "assign_failed"} =>
        LET padded == circuit.batch.chunks_with_padding
        IN  /\ Len(preimages) = MAX_AGG_SNARKS + 2
            /\ Len(preimages[1]) = 136
            /\ preimages[2] = Concat([i \in 1..MAX_AGG_SNARKS |-> padded[i].data_hash])
            /\ \A i \in 1..MAX_AGG_SNARKS :
                /\ Len(preimages[i + 2]) = 136
                /\ SubSeq(preimages[i + 2], 9, 136) =
                        SubSeq(extract_hash_preimage(padded[i]), 9, 136)
    /\ pc # "assign_failed"
    /\ pc = "assigned" =>
        LET parsed == parse_hash_preimage_cells(hash_cells.hash_input_cells)
        IN  /\ SubSeq(parsed.batch_pi_hash_preimage, 1, 136) = preimages[1]
            /\ \A i \in 1..MAX_AGG_SNARKS :
                    i + 2 <= Len(preimages) =>
                        SubSeq(parsed.chunk_pi_hash_preimages[i], 1, 136)
                            = preimages[i + 2]

LimbsOf(v) == [i \in 1..LIMBS |-> (v \div Pow2(BITS * (i - 1))) % Pow2(BITS)]

\* C9: the instance vector is the limbs of lhs.x, lhs.y, rhs.x, rhs.y, then
\* the 32 bytes of the batch public input hash, one element each, then the
\* number of valid chunks; it has 4 * LIMBS + 32 + 1 elements for every k.
C9_InstanceLayout ==
    pc = "assembled" =>
        LET inst == aggregation.flattened_instances
            acc  == aggregation.accumulator
        IN  /\ Len(inst) = 4 * LIMBS + 32 + 1
            /\ SubSeq(inst, 1, LIMBS) = LimbsOf(acc.lhs.x)
            /\ SubSeq(inst, LIMBS + 1, 2 * LIMBS) = LimbsOf(acc.lhs.y)
            /\ SubSeq(inst, 2 * LIMBS + 1, 3 * LIMBS) = LimbsOf(acc.rhs.x)
            /\ SubSeq(inst, 3 * LIMBS + 1, 4 * LIMBS) = LimbsOf(acc.rhs.y)
            /\ \A i \in 1..32 :
                /\ inst[4 * LIMBS + i] \in 0..255
                /\ inst[4 * LIMBS + i] = circuit.batch.public_input_hash[i]
            /\ inst[4 * LIMBS + 33] = k

C9_Witness ==
    /\ pc = "assembled"
    /\ k = 5
    /\ aggregation.accumulator.lhs.x >= Pow2(BITS * (LIMBS - 1))
    /\ Len(aggregation.snarks_with_padding) = MAX_AGG_SNARKS

RECURSIVE Reconstruct(_, _)
Reconstruct(limbs, n) ==
    IF n = 0 THEN 0
    ELSE Reconstruct(limbs, n - 1) + limbs[n] * Pow2(BITS * (n - 1))

RECURSIVE Horner(_, _, _)
Horner(coeffs, i, r) ==
    IF i > Len(coeffs) THEN 0
    ELSE (coeffs[i] + r * Horner(coeffs, i + 1, r)) % FqModulus

C13_ChildInstanceChecked ==
    /\ pc = "new_failed" =>
            aggregation.status \in {"MalformedChildProof", "InstanceMismatch"}
    /\ pc \in {"verifying", "assembled"} =>
            \A i \in 1..MAX_AGG_SNARKS :
                /\ i <= Len(snarks)
                /\ Len(snarks[i]) = ACC_LEN + DIGEST_LEN
                /\ SubSeq(snarks[i], ACC_LEN + 1, ACC_LEN + 32)
                        = public_input_hash(circuit.batch.chunks_with_padding[i])

\* C14: an aggregate is produced only when every one of the MAX_AGG_SNARKS
\* slots was checked against its own child and every child contributed its
\* accumulator to the fold; a missing or surplus child aborts.
C14_AllOrNothing ==
    pc = "assembled" =>
        /\ Len(aggregation.snarks_with_padding) = MAX_AGG_SNARKS
        /\ Len(fold.accumulators) = MAX_AGG_SNARKS
        /\ \A i \in 1..MAX_AGG_SNARKS :
                SubSeq(aggregation.snarks_with_padding[i], ACC_LEN + 1, ACC_LEN + 32)
                    = public_input_hash(circuit.batch.chunks_with_padding[i])

\* the rows get_indices returns for a batch of n valid chunks
IndicesOf(n) ==
    get_indices(BatchHash_extract_hash_preimages(
                    BatchHash_construct(mock_chunks(n, 1, 0))))

IndicesOfEvery == [n \in 1..MAX_AGG_SNARKS |-> IndicesOf(n)]

\* C15: the shape of the circuit is the same for every number of valid
\* chunks: the rows of the input and output cells that synthesize collects
\* are the rows get_indices returns for a batch of any other number of
\* chunks, the numbers of cells collected are fixed, and so is the length of
\* the instance vector.
C15_ShapeIndependentOfK ==
    /\ pc = "synthesized" =>
            /\ \A n \in 1..MAX_AGG_SNARKS :
                    /\ layout.preimage_indices = IndicesOfEvery[n].preimage_indices
                    /\ layout.digest_indices = IndicesOfEvery[n].digest_indices
            /\ layout.num_input_cells = MAX_KECCAK_ROUNDS * ROUND_LEN
            /\ layout.num_output_cells = (MAX_AGG_SNARKS + 4) * DIGEST_LEN
    /\ pc \in {"assembled", "synthesized"} =>
            Len(aggregation.flattened_instances) = ACC_LEN + DIGEST_LEN + 1

C15_Witness ==
    /\ pc = "synthesized"
    /\ layout.num_valid_snarks = 5
    /\ num_rounds(last(BatchHash_extract_hash_preimages(aggregation.batch_hash))) = 2
    /\ num_rounds(last(BatchHash_extract_hash_preimages(
            BatchHash_construct(mock_chunks(1, 1, 0))))) = 1
    /\ layout.digest_indices = IndicesOfEvery[1].digest_indices

\* C16: the folding challenge exists only once every child has been
\* verified and its accumulator collected, and it is squeezed from all of
\* the accumulators.
C16_ChallengeAfterAllChildren ==
    /\ fold.challenge # <<>> =>
        /\ fold.done = Len(snarks)
        /\ Len(fold.accumulators) = Len(snarks)
        /\ pc \in {"assembled", "synthesized", "synthesize_failed"}
    /\ (pc = "verifying" /\ fold.done < Len(snarks)) =>
        /\ fold.challenge = <<>>
        /\ aggregation.status # "ok"

C16_Witness ==
    /\ pc = "assembled"
    /\ fold.challenge # <<>>
    /\ fold.done = MAX_AGG_SNARKS

\* C17: what the operations produce is decided by their inputs and not by
\* the environment of the process: the capacity of the Keccak table is the
\* same whatever KECCAK_ROWS is set to, and so is what synthesize assigns.
C17_IndependentOfEnvironment ==
    /\ pc = "assigned" =>
            \A env \in KeccakRowsEnv :
                hash_cells.capacity = capacity(Pow2(LOG_DEGREE), env)
    /\ pc \in {"synthesized", "synthesize_failed"} =>
            \A env \in KeccakRowsEnv, keccak_input \in KeccakInputs :
                layout = assign_batch_hashes(
                            BatchHash_extract_hash_preimages(aggregation.batch_hash),
                            aggregation.batch_hash.number_of_valid_chunks,
                            env, keccak_input)

\* the accumulator of child i replayed on its own, on a transcript that has
\* read nothing before
ReplayAlone(i) ==
    succinct_verify(snarks[i],
                    read_proof(snarks[i], [stream |-> proofs[i], buf |-> 0]).proof)[1]

\* the shared transcript after the children from..i + 1 (downwards) were
\* replayed on it
RECURSIVE TranscriptBefore(_, _)
TranscriptBefore(i, from) ==
    IF i >= from THEN PoseidonTranscript_from_spec
    ELSE read_proof(snarks[i + 1],
                    new_stream(TranscriptBefore(i + 1, from), proofs[i + 1])).transcript

\* the accumulator of child i when the children are replayed last to first
ReplayReversed(i) ==
    succinct_verify(snarks[i],
                    read_proof(snarks[i],
                               new_stream(TranscriptBefore(i, Len(snarks)), proofs[i])).proof)[1]

Flip(p) == (3 - p \div 8) * 8 + (p % 8)

\* C19: the constraints of rule 1 are satisfied exactly when every byte
\* i * 8 + j of the data hash field of the batch public input hash preimage
\* is the output cell (3 - i) * 8 + j of the digest of the batch data hash
\* preimage, for every number of valid chunks; the map of the positions is
\* its own inverse on 0..31.
C19_DigestReuse ==
    /\ \A p \in 0..DIGEST_LEN - 1 :
            Flip(p) \in 0..DIGEST_LEN - 1 /\ Flip(Flip(p)) = p
    /\ pc = "synthesized" =>
            LET field  == Slice(layout.batch_pi_hash_preimage,
                                CHUNK_DATA_HASH_INDEX, DIGEST_LEN)
                digest == digest_cells(keccak256(
                            last(BatchHash_extract_hash_preimages(
                                    aggregation.batch_hash))))
            IN  layout.rule1 <=>
                    \A i \in 0..3 : \A j \in 0..7 :
                        field[i * 8 + j + 1] = digest[Flip(i * 8 + j) + 1]

\* C20: the prev_state_root bytes of the batch public input hash preimage
\* are those of chunk slot 0, and its post_state_root and withdraw_root
\* bytes are those of the last slot, MAX_AGG_SNARKS - 1; for every
\* constructed batch and every number of valid chunks the check passes,
\* the last slot carrying the roots of the last valid chunk.
C20_RootSharing ==
    /\ pc \in {"assembled", "synthesized", "synthesize_failed"} =>
            LET extracted == BatchHash_extract_hash_preimages(aggregation.batch_hash)
            IN  rule_2(extracted[1],
                       [i \in 1..MAX_AGG_SNARKS |-> extracted[i + 1]])
    /\ pc = "synthesized" =>
            /\ layout.rule2
            /\ Slice(layout.batch_pi_hash_preimage, PREV_STATE_ROOT_INDEX, DIGEST_LEN)
                    = chunk_hashes[1].prev_state_root
            /\ Slice(layout.first_slot, PREV_STATE_ROOT_INDEX, DIGEST_LEN)
                    = chunk_hashes[1].prev_state_root
            /\ Slice(layout.batch_pi_hash_preimage, POST_STATE_ROOT_INDEX, DIGEST_LEN)
                    = chunk_hashes[k].post_state_root
            /\ Slice(layout.last_slot, POST_STATE_ROOT_INDEX, DIGEST_LEN)
                    = chunk_hashes[k].post_state_root
            /\ Slice(layout.batch_pi_hash_preimage, WITHDRAW_ROOT_INDEX, DIGEST_LEN)
                    = chunk_hashes[k].withdraw_root
            /\ Slice(layout.last_slot, WITHDRAW_ROOT_INDEX, DIGEST_LEN)
                    = chunk_hashes[k].withdraw_root

C20_Witness ==
    /\ pc = "synthesized"
    /\ k = 3
    /\ chunk_hashes[1].post_state_root # chunk_hashes[3].post_state_root
    /\ Slice(layout.last_slot, POST_STATE_ROOT_INDEX, DIGEST_LEN)
            = chunk_hashes[3].post_state_root
    /\ Slice(layout.first_slot, POST_STATE_ROOT_INDEX, DIGEST_LEN)
            # chunk_hashes[3].post_state_root

\* what a call of assign_batch_hashes returned
Assigned == call.ret[1]
AssignReturned == pc = "returned" /\ call.fn = "assign_batch_hashes"
Accepted == AssignReturned /\ Assigned.status = "ok"
Rejected == AssignReturned /\ Assigned.status = "panic"

\* bytes from..from + 31 (counted from 0) of the preimage of chunk slot i
\* (counted from 0) in the arguments of the call
SlotField(i, from) == Slice(call.preimages[i + 2], from, DIGEST_LEN)

\* the number of rounds of 136 bytes that absorb the data hashes of n chunks
BoundaryOf(n) == (DIGEST_LEN * n + ROUND_LEN - 1) \div ROUND_LEN

\* C21: the linker accepts only if the data rlc of the Keccak table at the
\* end of the round selected by the number of valid chunks k, round
\* ceil(32 * k / 136) of the data hash, is the rlc of the first 32 * k bytes
\* of the data hash preimage; a match at another round is not enough.
C21_BoundarySelectedByK ==
    Accepted =>
        LET n == call.num_of_valid_chunks
        IN  /\ Len(last(call.preimages)) >= DIGEST_LEN * n
            /\ Assigned.data_rlc[BoundaryOf(n)]
                    = rlc(SubSeq(last(call.preimages), 1, DIGEST_LEN * n),
                          call.keccak_input)

\* the preimages of the batches that construct builds, by number of chunks
ConstructedPreimages == [n \in 1..MAX_AGG_SNARKS |-> batch_preimages(n)]

\* the call is on the preimages of a constructed batch and its number of
\* valid chunks
OnConstructed ==
    /\ call.num_of_valid_chunks \in 1..MAX_AGG_SNARKS
    /\ call.preimages = ConstructedPreimages[call.num_of_valid_chunks]

\* the prev_state_root of every slot but the first is the post_state_root
\* of the slot before it
Continuous ==
    \A i \in 0..MAX_AGG_SNARKS - 2 :
        SlotField(i + 1, PREV_STATE_ROOT_INDEX) = SlotField(i, POST_STATE_ROOT_INDEX)

\* C22: the linker accepts only preimages in which the prev_state_root of
\* slot i + 1 is the post_state_root of slot i for every adjacent pair of
\* the MAX_AGG_SNARKS slots, padded slots included; the preimages of every
\* constructed batch are so linked and are accepted, and preimages with a
\* broken pair are rejected.
C22_Continuity ==
    AssignReturned =>
        /\ Accepted => Continuous
        /\ ~Continuous => Rejected
        /\ OnConstructed => Continuous /\ Accepted

\* a call rejected for the pair of the last valid chunk and the first padded
\* slot alone: the padded slots are linked to each other
C22_Witness ==
    /\ Rejected
    /\ call.num_of_valid_chunks = 3
    /\ SlotField(3, PREV_STATE_ROOT_INDEX) # SlotField(2, POST_STATE_ROOT_INDEX)
    /\ \A i \in 0..MAX_AGG_SNARKS - 2 :
            i # 2 => SlotField(i + 1, PREV_STATE_ROOT_INDEX)
                        = SlotField(i, POST_STATE_ROOT_INDEX)
    /\ \A i \in 3..MAX_AGG_SNARKS - 1 :
            SlotField(i, PREV_STATE_ROOT_INDEX) = SlotField(i, POST_STATE_ROOT_INDEX)

\* slot i (counted from 0) of the arguments of the call has the shape of a
\* padded chunk; its data hash is zero
PaddingShape(i) ==
    SlotField(i, PREV_STATE_ROOT_INDEX) = SlotField(i, POST_STATE_ROOT_INDEX)
PaddingData(i) == SlotField(i, CHUNK_DATA_HASH_INDEX) = ZeroH256

RulesOfCall ==
    The({ IF cells.status # "ok" THEN [status |-> "panic"]
          ELSE The({ [status |-> "ok",
                      check  |-> <<cond.check1, cond.check3, cond.check6, cond.check7>>,
                      rule   |-> <<cond.rule1, cond.rule3, cond.rule6, cond.rule7>>] :
                        cond \in {conditional_constraints(
                                    cells.hash_input_cells, cells.hash_output_cells,
                                    cells.data_rlc_cells, call.keccak_input,
                                    call.num_of_valid_chunks)} }) :
            cells \in {extract_hash_cells(call.preimages, <<>>, call.keccak_input)} })

\* C24: every rule is enforced twice with one meaning, as an assertion on
\* the values and as a constraint: on every input the assertion of a rule
\* passes exactly when its constraint is satisfied.  The rules 2, 4 and 5
\* assert and constrain the equality of the same two cells; the formula is
\* on the rules 1, 3, 6 and 7.
C24_CheckedTwice ==
    AssignReturned =>
        \A rules \in {RulesOfCall} :
            rules.status = "ok" =>
                \A r \in 1..4 : rules.check[r] <=> rules.rule[r]

\* the flags of the table: 1..4 -> (1, 0, 0), 5..8 -> (0, 1, 0), 9, 10 -> (0, 0, 1)
FlagsTable(n) ==
    IF n <= 4 THEN <<1, 0, 0>> ELSE IF n <= 8 THEN <<0, 1, 0>> ELSE <<0, 0, 1>>

\* C25: for every number of valid chunks in 1..10 the three data hash flags
\* are those of the table, one of them being 1, and the digest they select
\* is the one Keccak emits for the data hash preimage after its
\* 1 + (32 * k) / 136 rounds.
C25_FlagsTable ==
    (Accepted /\ call.num_of_valid_chunks \in 1..MAX_AGG_SNARKS) =>
        /\ Assigned.flags = FlagsTable(call.num_of_valid_chunks)
        /\ Assigned.flags[1] + Assigned.flags[2] + Assigned.flags[3] = 1
        /\ OnConstructed =>
                \* byte p of the digest selected is read from the output cell
                \* Flip(p), so the bytes come in the order of the hash
                Assigned.data_hash_digest = keccak256(last(call.preimages))

\* a - b in the scalar field, the wraparound written out
Wrapped(a, b) == IF a >= b THEN a - b ELSE FrModulus - (b - a)

\* C26: for every number of valid chunks k in 0..MAX_AGG_SNARKS,
\* chunk_is_valid returns MAX_AGG_SNARKS bits, bit i being 1 exactly when
\* i < k; is_smaller_than(a, b) returns 1 exactly when a < b for small a and
\* b, and it is the highest bit of the decomposition of a - b in the field.
C26_ChunkIsValid ==
    /\ (pc = "returned" /\ call.fn = "chunk_is_valid") =>
            /\ Len(call.ret[1]) = MAX_AGG_SNARKS
            /\ \A i \in 0..MAX_AGG_SNARKS - 1 :
                    call.ret[1][i + 1] = IF i < call.num_of_valid_chunks THEN 1 ELSE 0
    /\ (pc = "returned" /\ call.fn = "is_smaller_than") =>
            /\ call.ret[1] = IF call.a < call.b THEN 1 ELSE 0
            /\ call.ret[1] = (Wrapped(call.a, call.b)
                                \div Pow2(bit_length(FrModulus) - 1)) % 2

C26_Witness ==
    /\ pc = "returned"
    /\ call.fn = "chunk_is_valid"
    /\ call.num_of_valid_chunks = 3
    /\ call.ret[1] = <<1, 1, 1, 0, 0, 0, 0, 0, 0, 0>>

GetIndicesReturned == pc = "returned" /\ call.fn = "get_indices"

\* the precomputed data of get_indices
Precomputed ==
    [preimage_indices |-> precomputed_preimage_indices,
     digest_indices   |-> precomputed_digest_indices]

\* the list get_indices is called on is a full one: the batch public input
\* hash preimage and those of the MAX_AGG_SNARKS slots, 136 bytes each, then
\* the data hash preimage
FullList ==
    /\ Len(call.preimages) = MAX_AGG_SNARKS + 2
    /\ \A i \in 1..MAX_AGG_SNARKS + 1 : Len(call.preimages[i]) = ROUND_LEN

\* C27: the precomputed indices for MAX_AGG_SNARKS = 10 are, element for
\* element, what get_indices computes for a full list of
\* MAX_AGG_SNARKS + 2 preimages, and they are returned for exactly those
\* lists, so that what get_indices returns is always what it computes.
C27_PrecomputedIsComputed ==
    GetIndicesReturned =>
        /\ FullList => get_indices_computed(call.preimages) = Precomputed
        /\ use_precomputed(call.preimages) <=> FullList
        /\ call.ret[1] = get_indices_computed(call.preimages)

\* is_ascending, strictly
StrictlyAscending(a) == \A i \in 1..Len(a) - 1 : a[i] < a[i + 1]

Elements(a) == { a[i] : i \in 1..Len(a) }

\* the first MAX_AGG_SNARKS + 1 preimages of the list are 136 bytes long
SlotsOfOneRound ==
    /\ Len(call.preimages) >= MAX_AGG_SNARKS + 1
    /\ \A i \in 1..MAX_AGG_SNARKS + 1 : Len(call.preimages[i]) = ROUND_LEN

\* the input cells collected at the rows of get_indices hold, for every
\* slot i, the 136 bytes of its preimage from cell 2 * 136 * (i + 1) on
SlotsWhereParsed ==
    \A cells \in {extract_hash_cells(call.preimages, <<>>, 3)} :
        /\ cells.status = "ok"
        /\ \A i \in 0..MAX_AGG_SNARKS - 1 :
                Slice(cells.hash_input_cells, 2 * ROUND_LEN * (i + 1), ROUND_LEN)
                    = call.preimages[i + 2]
        /\ \A i \in 1..MAX_AGG_SNARKS :
                SubSeq(parse_hash_preimage_cells(cells.hash_input_cells)
                            .chunk_pi_hash_preimages[i], 1, ROUND_LEN)
                    = call.preimages[i + 1]

\* C28: for a list whose first MAX_AGG_SNARKS + 1 preimages are 136 bytes
\* long, get_indices returns strictly increasing preimage rows and strictly
\* increasing digest rows, no row is in both, there are
\* 136 * (2 * (MAX_AGG_SNARKS + 1) + 3) preimage rows and
\* 32 * (MAX_AGG_SNARKS + 4) digest rows, and the 136 bytes of slot i are the
\* input cells 2 * 136 * (i + 1) .. 2 * 136 * (i + 1) + 135, where
\* parse_hash_preimage_cells takes them.
C28_IndicesWellFormed ==
    (GetIndicesReturned /\ SlotsOfOneRound) =>
        /\ StrictlyAscending(call.ret[1].preimage_indices)
        /\ StrictlyAscending(call.ret[1].digest_indices)
        /\ Elements(call.ret[1].preimage_indices)
                \cap Elements(call.ret[1].digest_indices) = {}
        /\ Len(call.ret[1].preimage_indices)
                = ROUND_LEN * (2 * (MAX_AGG_SNARKS + 1) + 3)
        /\ Len(call.ret[1].digest_indices) = DIGEST_LEN * (MAX_AGG_SNARKS + 4)
        /\ SlotsWhereParsed

C28_Witness ==
    /\ GetIndicesReturned
    /\ FullList
    /\ Len(last(call.preimages)) = DIGEST_LEN * MAX_AGG_SNARKS
    /\ Len(call.ret[1].preimage_indices) = 3400
    /\ call.ret[1].preimage_indices[2 * ROUND_LEN + 1] = 612

\* C29: for every AggregationCircuit the instance length that num_instance
\* declares is the length of the vector that instances returns (the limbs
\* of the accumulator, the 32 bytes of the hash and the number of valid
\* chunks), and every index of accumulator_indices is (0, j) with j in
\* 0..ACC_LEN - 1, inside that vector.
C29_InstanceLengthDeclared ==
    pc \in {"assembled", "synthesized", "synthesize_failed"} =>
        /\ Len(num_instance(aggregation)) = Len(CircuitExt_instances(aggregation))
        /\ \A c \in 1..Len(CircuitExt_instances(aggregation)) :
                num_instance(aggregation)[c] = Len(CircuitExt_instances(aggregation)[c])
        /\ \A i \in 1..Len(accumulator_indices) :
                /\ accumulator_indices[i][1] = 0
                /\ accumulator_indices[i][2] \in 0..ACC_LEN - 1
                /\ accumulator_indices[i][2] < Len(CircuitExt_instances(aggregation)[1])

\* the sum of inputs[i] * r^(n - i) over i in from..n, n the length of inputs
RECURSIVE PowerSum(_, _, _)
PowerSum(inputs, r, from) ==
    IF from > Len(inputs) THEN 0
    ELSE (inputs[from] * FrPow(r, Len(inputs) - from)
            + PowerSum(inputs, r, from + 1)) % FrModulus

\* the number of flags that are 1
RECURSIVE Ones(_)
Ones(flags) == IF flags = <<>> THEN 0 ELSE Head(flags) + Ones(Tail(flags))

\* C30: rlc(inputs, r) is the sum of inputs[i] * r^(n - 1 - i) over the n
\* inputs, the first one weighted highest; rlc_with_flag with flags that are
\* m ones, 1 <= m <= n, then n - m zeros is rlc of the first m inputs, and
\* with every flag 1 it is rlc of the inputs.
C30_Rlc ==
    /\ (pc = "returned" /\ call.fn = "rlc") =>
            call.ret[1] = PowerSum(call.inputs, call.randomness, 1)
    /\ (pc = "returned" /\ call.fn = "rlc_with_flag") =>
            /\ call.ret[1] = rlc(SubSeq(call.inputs, 1, Ones(call.flags)), call.randomness)
            /\ call.ret[1] = PowerSum(SubSeq(call.inputs, 1, Ones(call.flags)),
                                      call.randomness, 1)
            /\ Ones(call.flags) = Len(call.inputs) =>
                    call.ret[1] = rlc(call.inputs, call.randomness)

C30_Witness ==
    /\ pc = "returned"
    /\ call.fn = "rlc_with_flag"
    /\ call.inputs = <<3, 7, 3>>
    /\ call.flags = <<1, 1, 0>>
    /\ call.randomness = 19
    /\ call.ret[1] = 3 * 19 + 7
    /\ call.ret[1] # rlc(call.inputs, call.randomness)

====
